---- MODULE Spec2Model ----
(***************************************************************************)
(* Keychain Studio: the four designers (TextOutline, Initial, BasicName,   *)
(* Flower), their rebuildMeshes pipelines, the Shape Reconstructor         *)
(* (polyTreeToThreeShapes and the BasicName root walk) and exportSTL.      *)
(*                                                                         *)
(* Specifications:                                                         *)
(*   Spec         one mounted designer: parameter edits, rebuilds, exports *)
(*                suspended at checkLicenseStatus, sign-in and sign-out.   *)
(*   SpecTree     the Shape Reconstructor applied to polygon trees that    *)
(*                are grown node by node (bounded by MaxNodes).            *)
(*   SpecLayers   the z placement of the layers and the keyring radii      *)
(*                under the depth and keyring sliders.                     *)
(*   SpecHeap     the geometry and material objects of successive          *)
(*                composites (bounded by MaxObjects).                      *)
(*   SpecLicense  activateLicense, validateDeviceActivation and            *)
(*                checkLicenseStatus of several browsers against the       *)
(*                device_activations table.                                *)
(*                                                                         *)
(* Coordinates.  A font point is given in units of 1/(2*SCALE), so that    *)
(* p.x * SCALE is a multiple of one half and Math.round is decided by      *)
(* Round.  Clipper points are integers.                                    *)
(*                                                                         *)
(* three.js and ClipperLib are collaborators outside the repository: each  *)
(* is modelled at the call sites that use it, by the contract the call     *)
(* site relies on.                                                         *)
(***************************************************************************)
EXTENDS Integers, Sequences, FiniteSets, TLC

VARIABLES
    variant,          \* which designer component is mounted
    user,             \* the `user` prop: NoUser or a signed-in user
    scene,            \* onMount has run: scene and group exist
    assets,           \* font (TextOutline, Initial) / base.stl and top.stl (Flower) are there
    text,             \* text / textContent / char: a sequence of characters
    outlineOffsetPx,  \* outline thickness (TextOutline, Initial)
    keyringEnabled,   \* keyring toggle (TextOutline, Initial)
    group,            \* the composite: the sequence of its meshes (layers)
    lastRebuild,      \* the most recent rebuildMeshes call: did it pass its guard, throw
    clipLog,          \* paths the last rebuild handed to Clipper / ClipperOffset
    extrudeLog,       \* region lists the last rebuild handed to ExtrudeGeometry
    awaiting,         \* exportSTL calls suspended at `await checkLicenseStatus(user)`
    last,             \* what the most recent exportSTL step did
    exportError,      \* BasicName's exportError state (null = "")
    nodes,            \* SpecTree: the polygon tree, flat: node i has a parent, a contour
    shapesOut,        \* SpecTree: the reconstructor's result list
    treePc,           \* SpecTree: "build", or the variant whose reconstructor has run
    depths,           \* SpecLayers: the depth parameters, in 1/1000 of a unit
    keyringSize,      \* SpecLayers: keyringOuterSize and keyringHoleSize, in 1/1000
    stack,            \* SpecLayers: the composite's meshes with position.z and depth
    ringRadii,        \* SpecLayers: the keyring's outer and hole radius, in 1/1000
    meshes,           \* SpecHeap: the composite's meshes, each with its geometry and material object
    disposed,         \* SpecHeap: the objects dispose() has been called on
    earlier,          \* SpecHeap: the objects that belonged to an earlier composite
    allocated,        \* SpecHeap: how many geometry and material objects were created so far
    activations,      \* SpecLicense: the rows of public.device_activations
    storedLicense,    \* SpecLicense: each browser's localStorage license key
    signedIn,         \* SpecLicense: the account signed in at each browser
    licenseCall,      \* SpecLicense: each browser's licensing call in flight, or its result
    trials,           \* SpecLicense: the rows of public.user_trials
    now,              \* SpecLicense: the clock, in units of half a trial duration
    app,              \* SpecApp: App.svelte's user, licenseStatus and validation interval
    appCalls,         \* SpecApp: the handlers suspended at `await checkLicenseStatus(...)`
    fontState,        \* SpecFonts: a designer's font keys, lastFont, loaded font and licenseStatus
    builtFonts        \* SpecFonts: the fonts the composite was built with, by role

designerVars == <<variant, user, scene, assets, text, outlineOffsetPx,
                  keyringEnabled, group, lastRebuild, clipLog, extrudeLog,
                  awaiting, last, exportError>>
treeVars == <<nodes, shapesOut, treePc>>
layerVars == <<depths, keyringSize, stack, ringRadii>>
heapVars == <<meshes, disposed, earlier, allocated>>
licenseVars == <<activations, storedLicense, signedIn, licenseCall, trials, now>>
appVars == <<app, appCalls>>
fontVars == <<fontState, builtFonts>>
nonDesignerVars == <<treeVars, layerVars, heapVars, licenseVars, appVars, fontVars>>
nonTreeVars == <<designerVars, layerVars, heapVars, licenseVars, appVars, fontVars>>
vars == <<designerVars, treeVars, layerVars, heapVars, licenseVars, appVars, fontVars>>

----------------------------------------------------------------------------
(* Bounds of the model *)

MaxNodes == 4
MaxInFlight == 2

(* Program constants *)

MIN_STL_BYTES == 84
SCALE == 1000
KEYRING_OUTER_SIZE == 8
KEYRING_HOLE_SIZE == 4

NoUser == "none"
Users == {"u1"}
Variants == {"TextOutline", "Initial", "BasicName", "Flower"}

----------------------------------------------------------------------------
(* Sequences *)

Reverse(s) == [i \in 1..Len(s) |-> s[Len(s) + 1 - i]]

RECURSIVE Flatten(_)
Flatten(ss) == IF ss = <<>> THEN <<>> ELSE Head(ss) \o Flatten(Tail(ss))

RECURSIVE SumSeq(_)
SumSeq(s) == IF s = <<>> THEN 0 ELSE Head(s) + SumSeq(Tail(s))

----------------------------------------------------------------------------
(* Orientation tests of the two libraries, as the call sites use them *)

\* twice the signed area (shoelace): positive = counter-clockwise, y up
Area2(pts) ==
    IF Len(pts) < 3 THEN 0
    ELSE SumSeq([i \in 1..Len(pts) |->
            LET p == pts[i]
                q == pts[(i % Len(pts)) + 1]
            IN  p[1] * q[2] - q[1] * p[2]])

\* ClipperLib.Clipper.Orientation(path): Area(path) >= 0
Orientation(pts) == Area2(pts) >= 0

\* THREE.ShapeUtils.isClockWise(pts): area(pts) < 0
isClockWise(pts) == Area2(pts) < 0

----------------------------------------------------------------------------
(* Polygon trees (ClipperLib.PolyTree), flat: nodes[i] = [parent, contour],  *)
(* parent = 0 for a root.  The hole flag alternates with the depth, as in    *)
(* every PolyTree: roots are outer contours, their children holes, and so on *)

TriCCW == << <<0, 0>>, <<4, 0>>, <<0, 4>> >>
SqCW == << <<0, 0>>, <<0, 4>>, <<4, 4>>, <<4, 0>> >>
TwoPts == << <<0, 0>>, <<4, 0>> >>
Contours == {TriCCW, SqCW, TwoPts}

RECURSIVE Depth(_, _)
Depth(ns, i) == IF ns[i].parent = 0 THEN 1 ELSE 1 + Depth(ns, ns[i].parent)

\* node.IsHole?.() ?? node.m_IsHole
IsHole(ns, i) == Depth(ns, i) % 2 = 0

\* node.Childs?.() ?? node.m_Childs ?? []   (i = 0: the tree's roots)
Childs(ns, i) == SelectSeq([j \in 1..Len(ns) |-> j], LAMBDA j : ns[j].parent = i)

\* node.Contour?.() ?? node.m_polygon ?? []
Contour(ns, i) == ns[i].contour

\* a THREE.Shape: outer boundary and holes; `node` remembers the tree node it
\* was built from.  NullShape stands for the null / undefined that
\* buildFromOuter returns for a contour of fewer than 3 points.
NullShape == [node |-> 0, outer |-> <<>>, holes |-> <<>>]

----------------------------------------------------------------------------
(* Shape Reconstructor, TextOutline: part_000 lines 470-510 *)

RECURSIVE buildFromOuterOutline(_, _)
buildFromOuterOutline(ns, outerNode) ==
    LET contour == Contour(ns, outerNode) IN
    IF Len(contour) < 3 THEN [shape |-> NullShape, pushed |-> <<>>]
    ELSE
      LET outerPts == IF isClockWise(contour) THEN Reverse(contour) ELSE contour
          holeCh == SelectSeq(Childs(ns, outerNode), LAMBDA ch : IsHole(ns, ch))
          okCh == SelectSeq(holeCh, LAMBDA ch : Len(Contour(ns, ch)) >= 3)
          holePts(ch) == IF ~isClockWise(Contour(ns, ch))
                         THEN Reverse(Contour(ns, ch)) ELSE Contour(ns, ch)
          holeKids(ch) == SelectSeq(Childs(ns, ch), LAMBDA hk : ~IsHole(ns, hk))
          pushedBy(hk) == LET r == buildFromOuterOutline(ns, hk)
                          IN  r.pushed \o <<r.shape>>
      IN  [shape |-> [node |-> outerNode, outer |-> outerPts,
                      holes |-> [k \in 1..Len(okCh) |-> holePts(okCh[k])]],
           pushed |-> Flatten([k \in 1..Len(holeCh) |->
                        Flatten([m \in 1..Len(holeKids(holeCh[k])) |->
                                    pushedBy(holeKids(holeCh[k])[m])])])]

polyTreeToThreeShapesOutline(ns) ==
    LET roots == SelectSeq(Childs(ns, 0), LAMBDA n : ~IsHole(ns, n))
        perRoot(n) == LET r == buildFromOuterOutline(ns, n)
                      IN  r.pushed \o (IF r.shape # NullShape THEN <<r.shape>> ELSE <<>>)
    IN  Flatten([k \in 1..Len(roots) |-> perRoot(roots[k])])

(* Shape Reconstructor, Initial: part_002 lines 362-397 *)

RECURSIVE buildFromOuterInitial(_, _)
buildFromOuterInitial(ns, outerNode) ==
    LET contour == Contour(ns, outerNode) IN
    IF Len(contour) < 3 THEN [shape |-> NullShape, pushed |-> <<>>]
    ELSE
      LET holeCh == SelectSeq(Childs(ns, outerNode), LAMBDA ch : IsHole(ns, ch))
          okCh == SelectSeq(holeCh, LAMBDA ch : Len(Contour(ns, ch)) >= 3)
          holeKids(ch) == SelectSeq(Childs(ns, ch), LAMBDA hk : ~IsHole(ns, hk))
          pushedBy(hk) == LET r == buildFromOuterInitial(ns, hk)
                          IN  r.pushed \o <<r.shape>>
      IN  [shape |-> [node |-> outerNode, outer |-> contour,
                      holes |-> [k \in 1..Len(okCh) |-> Contour(ns, okCh[k])]],
           pushed |-> Flatten([k \in 1..Len(holeCh) |->
                        Flatten([m \in 1..Len(holeKids(holeCh[k])) |->
                                    pushedBy(holeKids(holeCh[k])[m])])])]

polyTreeToThreeShapesInitial(ns) ==
    LET roots == SelectSeq(Childs(ns, 0), LAMBDA n : ~IsHole(ns, n))
        perRoot(n) == LET r == buildFromOuterInitial(ns, n)
                      IN  r.pushed \o (IF r.shape # NullShape THEN <<r.shape>> ELSE <<>>)
    IN  Flatten([k \in 1..Len(roots) |-> perRoot(roots[k])])

(* BasicName root walks: the first usable root only (`break`), every child  *)
(* taken as a hole.  Base: part_001 lines 317-335, no orientation check.    *)
(* Top border: part_001 lines 513-535, orientation checked.                 *)

usableRoots(ns) ==
    SelectSeq(Childs(ns, 0),
              LAMBDA n : ~IsHole(ns, n) /\ Len(Contour(ns, n)) >= 3)

mergedShapeBasicName(ns) ==
    LET ok == usableRoots(ns) IN
    IF ok = <<>> THEN <<>>
    ELSE LET n == ok[1]
             ch == SelectSeq(Childs(ns, n), LAMBDA c : Len(Contour(ns, c)) >= 3)
         IN  << [node |-> n, outer |-> Contour(ns, n),
                 holes |-> [k \in 1..Len(ch) |-> Contour(ns, ch[k])]] >>

topMergedShapeBasicName(ns) ==
    LET ok == usableRoots(ns) IN
    IF ok = <<>> THEN <<>>
    ELSE LET n == ok[1]
             ch == SelectSeq(Childs(ns, n), LAMBDA c : Len(Contour(ns, c)) >= 3)
             outerPts == IF isClockWise(Contour(ns, n))
                         THEN Reverse(Contour(ns, n)) ELSE Contour(ns, n)
             holePts(c) == IF ~isClockWise(Contour(ns, c))
                           THEN Reverse(Contour(ns, c)) ELSE Contour(ns, c)
         IN  << [node |-> n, outer |-> outerPts,
                 holes |-> [k \in 1..Len(ch) |-> holePts(ch[k])]] >>

\* the reconstructor each variant runs on a result tree
Reconstructor(v, ns) ==
    CASE v = "TextOutline" -> polyTreeToThreeShapesOutline(ns)
      [] v = "Initial" -> polyTreeToThreeShapesInitial(ns)
      [] v = "BasicName" -> mergedShapeBasicName(ns)
      [] v = "BasicNameTop" -> topMergedShapeBasicName(ns)

TreeVariants == {"TextOutline", "Initial", "BasicName", "BasicNameTop"}

----------------------------------------------------------------------------
(* The font: Font.generateShapes(text, size).  A character is one of        *)
(*   "sp"   a space: no shapes                                              *)
(*   "a"    one outer contour, its closing point off by less than half a    *)
(*          Clipper unit                                                    *)
(*   "o"    an outer contour wound clockwise and one hole                   *)
(*   "dot"  a speck: its outer contour rounds to 2 distinct points          *)
(*   "e"    an outer contour and a hole that rounds to 2 distinct points    *)

Chars == {"sp", "a", "o", "dot", "e"}

Texts == { <<>>, <<"sp">>, <<"a">>, <<"o">>, <<"dot">>, <<"e">>,
           <<"a", "o">>, <<"sp", "a">>, <<"dot", "a">> }

RawTri == << <<0, 0>>, <<16, 0>>, <<0, 16>>, <<-1, -1>> >>
RawRing == << <<0, 0>>, <<0, 32>>, <<32, 32>>, <<32, 0>>, <<0, 0>> >>
RawHole == << <<8, 8>>, <<24, 8>>, <<24, 24>>, <<8, 24>>, <<8, 8>> >>
RawSpeck == << <<0, 0>>, <<16, 0>>, <<-1, 0>> >>

GlyphShapes(ch) ==
    CASE ch = "sp" -> <<>>
      [] ch = "a" -> << [outer |-> RawTri, holes |-> <<>>] >>
      [] ch = "o" -> << [outer |-> RawRing, holes |-> <<RawHole>>] >>
      [] ch = "dot" -> << [outer |-> RawSpeck, holes |-> <<>>] >>
      [] ch = "e" -> << [outer |-> RawRing, holes |-> <<RawSpeck>>] >>

generateShapes(t) == Flatten([i \in 1..Len(t) |-> GlyphShapes(t[i])])

\* String.prototype.trim
RECURSIVE trimStart(_)
trimStart(t) == IF t # <<>> /\ Head(t) = "sp" THEN trimStart(Tail(t)) ELSE t

trim(t) == Reverse(trimStart(Reverse(trimStart(t))))

----------------------------------------------------------------------------
(* Paths handed to Clipper.  A path remembers where it came from (src) and  *)
(* whether its orientation was forced since it was produced (forced).       *)

\* Math.round of k/2
Round(k) == (k + 1) \div 2

\* toPath: round to the Clipper grid, drop a duplicated closing point
toPath(pts) ==
    LET out == [i \in 1..Len(pts) |-> <<Round(pts[i][1]), Round(pts[i][2])>>] IN
    IF Len(out) > 2 /\ out[1] = out[Len(out)]
    THEN SubSeq(out, 1, Len(out) - 1) ELSE out

\* ensureCW(path, clockwise): reverse unless Orientation(path) = clockwise
ensureCW(pts, clockwise) ==
    IF Orientation(pts) # clockwise THEN Reverse(pts) ELSE pts

Path(pts, forced, src) == [pts |-> pts, forced |-> forced, src |-> src]

\* shapeToPaths: outer and holes of one font shape
shapeToPaths(shape) ==
    [outer |-> toPath(shape.outer),
     holes |-> [k \in 1..Len(shape.holes) |-> toPath(shape.holes[k])]]

\* the glyph loop without its length checks
glyphPathsOf_NoLengthCheck(shape) ==
    <<Path(ensureCW(shapeToPaths(shape).outer, TRUE), TRUE, "glyph")>>
    \o [k \in 1..Len(shapeToPaths(shape).holes) |->
           Path(ensureCW(shapeToPaths(shape).holes[k], FALSE), TRUE, "glyph")]

\* the glyph loop: skip a shape whose outer has fewer than 3 points, skip a
\* hole of fewer than 3 points, force the orientation of what is kept
glyphPathsOf(shape) ==
    LET sp == shapeToPaths(shape)
        okHoles == SelectSeq(sp.holes, LAMBDA h : Len(h) >= 3)
    IN  IF Len(sp.outer) < 3 THEN <<>>
        ELSE <<Path(ensureCW(sp.outer, TRUE), TRUE, "glyph")>>
             \o [k \in 1..Len(okHoles) |->
                    Path(ensureCW(okHoles[k], FALSE), TRUE, "glyph")]

\* the glyph loop giving up at the first shape whose outer is degenerate
glyphInputPaths_AbortsOnDegenerate(shapes) ==
    IF \E i \in 1..Len(shapes) : Len(toPath(shapes[i].outer)) < 3 THEN <<>>
    ELSE Flatten([i \in 1..Len(shapes) |-> glyphPathsOf(shapes[i])])

glyphInputPaths(shapes) ==
    Flatten([i \in 1..Len(shapes) |-> glyphPathsOf(shapes[i])])

----------------------------------------------------------------------------
(* ClipperLib at its call sites.  AddPath takes a closed path of at least   *)
(* 3 distinct points and ignores any other.  Execute returns a PolyTree:    *)
(* outer contours are roots (Orientation true), a path of the opposite      *)
(* orientation is a hole of the outer contour added before it.  Every       *)
(* accepted contour stays a node of its own: overlapping contours are not   *)
(* merged.                                                                  *)

AddPathAccepts(pts) == Cardinality({pts[i] : i \in 1..Len(pts)}) >= 3

RECURSIVE unionNodes(_, _, _)
unionNodes(paths, acc, lastRoot) ==
    IF paths = <<>> THEN acc
    ELSE
      LET p == Head(paths).pts IN
      IF ~AddPathAccepts(p) THEN unionNodes(Tail(paths), acc, lastRoot)
      ELSE IF Orientation(p)
      THEN unionNodes(Tail(paths),
                      Append(acc, [parent |-> 0, contour |-> p]), Len(acc) + 1)
      ELSE IF lastRoot = 0
      THEN unionNodes(Tail(paths),
                      Append(acc, [parent |-> 0, contour |-> Reverse(p)]),
                      Len(acc) + 1)
      ELSE unionNodes(Tail(paths),
                      Append(acc, [parent |-> lastRoot, contour |-> p]), lastRoot)

\* c.AddPaths(paths, ptSubject, true); c.Execute(ctUnion, tree, nonZero, nonZero)
ClipperUnion(paths) == unionNodes(paths, <<>>, 0)

\* subjects and clips added; c.Execute(ctDifference, ...): each clip cuts a
\* hole into the subject added last
ClipperDifference(subjects, clips) ==
    LET sub == ClipperUnion(subjects)
        rootIdx == SelectSeq([j \in 1..Len(sub) |-> j], LAMBDA j : sub[j].parent = 0)
        okClips == SelectSeq(clips, LAMBDA c : AddPathAccepts(c.pts))
    IN  IF rootIdx = <<>> THEN <<>>
        ELSE sub \o [k \in 1..Len(okClips) |->
                        [parent |-> rootIdx[Len(rootIdx)],
                         contour |-> ensureCW(okClips[k].pts, FALSE)]]

\* co.AddPaths(paths, jtRound, etClosedPolygon); co.Execute(out, delta):
\* new paths, produced by the library
ClipperOffsetExecute(paths) ==
    LET ok == SelectSeq(paths, LAMBDA p : AddPathAccepts(p.pts))
    IN  [k \in 1..Len(ok) |-> Path(ok[k].pts, FALSE, "offset")]

\* what a rebuild hands to Clipper: one entry per path added
LogOf(op, role, paths) ==
    { [op |-> op, role |-> role, n |-> Len(paths[k].pts),
       forced |-> paths[k].forced, src |-> paths[k].src] : k \in 1..Len(paths) }

\* getTreeBbox: the corner (minX, maxY) of all contours; empty = Infinity
SetMin(S) == CHOOSE x \in S : \A y \in S : x <= y
SetMax(S) == CHOOSE x \in S : \A y \in S : x >= y

getTreeBbox(ns) ==
    LET xs == UNION { {ns[i].contour[k][1] : k \in 1..Len(ns[i].contour)} : i \in 1..Len(ns) }
        ys == UNION { {ns[i].contour[k][2] : k \in 1..Len(ns[i].contour)} : i \in 1..Len(ns) }
    IN  IF xs = {} THEN [empty |-> TRUE, minX |-> 0, maxY |-> 0]
        ELSE [empty |-> FALSE, minX |-> SetMin(xs), maxY |-> SetMax(ys)]

\* circleToPath(cx, cy, r, clockwise), 4 segments standing for 64; with an
\* empty bounding box every coordinate is infinite and all points coincide
circleToPath(bbox, r, clockwise) ==
    LET cx == bbox.minX
        cy == bbox.maxY
        ring == << <<cx + r, cy>>, <<cx, cy + r>>, <<cx - r, cy>>, <<cx, cy - r>> >>
        inf == << <<0, 0>>, <<0, 0>>, <<0, 0>>, <<0, 0>> >>
    IN  IF bbox.empty THEN Path(inf, TRUE, "circle")
        ELSE Path(ensureCW(ring, clockwise), TRUE, "circle")

Max(a, b) == IF a >= b THEN a ELSE b
Min(a, b) == IF a <= b THEN a ELSE b

\* outerR = max(0.1, keyringOuterSize / 2), in Clipper units
outerR == Max(SCALE \div 10, (KEYRING_OUTER_SIZE * SCALE) \div 2)

\* innerR = min(max(0.05, keyringHoleSize / 2), outerR - 0.1)
innerR == Min(Max(SCALE \div 20, (KEYRING_HOLE_SIZE * SCALE) \div 2),
              outerR - SCALE \div 10)

\* collectOuterPaths: contours of at least 3 points, never below a hole
RECURSIVE collectOuterPaths(_, _)
collectOuterPaths(ns, n) ==
    IF IsHole(ns, n) THEN <<>>
    ELSE (IF Len(Contour(ns, n)) >= 3
          THEN <<Path(Contour(ns, n), FALSE, "tree")>> ELSE <<>>)
         \o Flatten([k \in 1..Len(Childs(ns, n)) |->
                        collectOuterPaths(ns, Childs(ns, n)[k])])

collectOuterOfRoots(ns) ==
    Flatten([k \in 1..Len(Childs(ns, 0)) |-> collectOuterPaths(ns, Childs(ns, 0)[k])])

----------------------------------------------------------------------------
(* Extrusion.  new THREE.ExtrudeGeometry(shapes, ...) throws on a null      *)
(* entry; on an empty list it yields a geometry without triangles.          *)

hasNull(shapes) == \E k \in 1..Len(shapes) : shapes[k] = NullShape

ExtrudeEntry(kind, shapes) ==
    [layer |-> kind, n |-> Len(shapes), hasNull |-> hasNull(shapes)]

\* a mesh of the composite
Layer(kind, shapes) == [kind |-> kind, regions |-> Len(shapes)]

\* the result of a rebuildMeshes call that returned at its entry guard
NotRun == [ran |-> FALSE, threw |-> FALSE, layers |-> <<>>, clip |-> {}, extrude |-> {}]

----------------------------------------------------------------------------
(* rebuildMeshes, TextOutline: part_000 lines 263-582.  The pipeline is     *)
(* written stage by stage, each stage an operator over the values the       *)
(* stages before it have computed.                                          *)

\* text || " "
textOrSpace(t) == IF t = <<>> THEN <<"sp">> ELSE t

\* lines 314-354: what the fill union, the offset and the outline union are
\* handed
clipOfOutline(inputPaths, off) ==
    LogOf("union", "subject", inputPaths)
    \cup (IF off > 0
          THEN LogOf("offset", "subject", inputPaths)
               \cup LogOf("union", "subject", ClipperOffsetExecute(inputPaths))
          ELSE {})

\* lines 326-354: the outline tree, from the offset paths if the offset is
\* positive, else from the glyph paths
outlineTreeOf(inputPaths, off) ==
    ClipperUnion(IF off > 0 THEN ClipperOffsetExecute(inputPaths) ELSE inputPaths)

\* the extrusion step, adding no mesh when there is no base region
extrudeOutline_SkipsEmpty(baseShapes, textShapes, clip) ==
    [ran |-> TRUE,
     threw |-> hasNull(baseShapes) \/ hasNull(textShapes),
     layers |-> IF hasNull(baseShapes) \/ hasNull(textShapes) \/ baseShapes = <<>>
                THEN <<>>
                ELSE <<Layer("base", baseShapes), Layer("text", textShapes)>>,
     clip |-> clip,
     extrude |-> {ExtrudeEntry("base", baseShapes)}
                 \cup (IF hasNull(baseShapes) THEN {}
                       ELSE {ExtrudeEntry("text", textShapes)})]

\* lines 526-556: both layers are extruded, then both meshes added
extrudeOutline(baseShapes, textShapes, clip) ==
    [ran |-> TRUE,
     threw |-> hasNull(baseShapes) \/ hasNull(textShapes),
     layers |-> IF hasNull(baseShapes) \/ hasNull(textShapes) THEN <<>>
                ELSE <<Layer("base", baseShapes), Layer("text", textShapes)>>,
     clip |-> clip,
     extrude |-> {ExtrudeEntry("base", baseShapes)}
                 \cup (IF hasNull(baseShapes) THEN {}
                       ELSE {ExtrudeEntry("text", textShapes)})]

\* lines 445-461: the union's outer contours minus the inner circle
keyringDiff(outlinePaths, outerCircle, diffPaths, innerCircle) ==
    [tree |-> ClipperDifference(diffPaths, <<innerCircle>>),
     clip |-> LogOf("union", "subject", outlinePaths \o <<outerCircle>>)
              \cup LogOf("difference", "subject", diffPaths)
              \cup LogOf("difference", "clip", <<innerCircle>>)]

\* lines 425-449: the outline's outer contours united with the outer circle
keyringUnion(outlinePaths, outerCircle, innerCircle) ==
    keyringDiff(outlinePaths, outerCircle,
                collectOuterOfRoots(ClipperUnion(outlinePaths \o <<outerCircle>>)),
                innerCircle)

\* lines 408-424: the two circles at the corner of the outline's bounding box
withKeyring(outlineTree) ==
    keyringUnion(collectOuterOfRoots(outlineTree),
                 circleToPath(getTreeBbox(outlineTree), outerR, TRUE),
                 circleToPath(getTreeBbox(outlineTree), innerR, FALSE))

\* lines 512-513 after the keyring block
keyringStage(inputPaths, clip, k) ==
    extrudeOutline(polyTreeToThreeShapesOutline(k.tree),
                   polyTreeToThreeShapesOutline(ClipperUnion(inputPaths)),
                   clip \cup k.clip)

\* lines 356-513: baseTree is the outline tree, or the keyring tree
baseStage(inputPaths, outlineTree, clip, kr) ==
    IF kr THEN keyringStage(inputPaths, clip, withKeyring(outlineTree))
    ELSE extrudeOutline(polyTreeToThreeShapesOutline(outlineTree),
                        polyTreeToThreeShapesOutline(ClipperUnion(inputPaths)),
                        clip)

glyphStage(inputPaths, off, kr) ==
    baseStage(inputPaths, outlineTreeOf(inputPaths, off),
              clipOfOutline(inputPaths, off), kr)

rebuildOutline(t, off, kr) ==
    glyphStage(glyphInputPaths(generateShapes(textOrSpace(t))), off, kr)

(* rebuildMeshes, Initial: part_002 lines 268-563 *)

\* lines 447-523: the initial letter and its platform are extruded and
\* added first, then base and text, then the ring
extrudeInitial(baseShapes, textShapes, initialThreeShapes, clip, kr) ==
    LET hasInitial == initialThreeShapes # <<>> /\ ~hasNull(initialThreeShapes)
        threwInitial == initialThreeShapes # <<>> /\ hasNull(initialThreeShapes)
        threwBase == ~threwInitial /\ hasNull(baseShapes)
        threw == threwInitial \/ hasNull(baseShapes) \/ hasNull(textShapes)
    IN  [ran |-> TRUE,
         threw |-> threw,
         layers |-> (IF hasInitial THEN <<Layer("initial", initialThreeShapes)>> ELSE <<>>)
                    \o (IF hasInitial /\ ~threwBase
                        THEN <<Layer("initialBase", baseShapes)>> ELSE <<>>)
                    \o (IF ~threw
                        THEN <<Layer("base", baseShapes), Layer("text", textShapes)>>
                        ELSE <<>>)
                    \o (IF ~threw /\ kr THEN <<[kind |-> "ring", regions |-> 1]>> ELSE <<>>),
         clip |-> clip,
         extrude |-> (IF initialThreeShapes # <<>>
                      THEN {ExtrudeEntry("initial", initialThreeShapes)} ELSE {})
                     \cup (IF hasInitial
                           THEN {ExtrudeEntry("initialBase", baseShapes)} ELSE {})
                     \cup (IF ~threwInitial
                           THEN {ExtrudeEntry("base", baseShapes)} ELSE {})
                     \cup (IF ~threwInitial /\ ~threwBase
                           THEN {ExtrudeEntry("text", textShapes)} ELSE {})
                     \cup (IF ~threw /\ kr
                           THEN {[layer |-> "ring", n |-> 1, hasNull |-> FALSE]} ELSE {})]

\* lines 314-446: fill union, outline, reconstruction; the initial letter's
\* union only if it has paths
initialStage(inputPaths, initialPaths, off, kr) ==
    extrudeInitial(
        polyTreeToThreeShapesInitial(outlineTreeOf(inputPaths, off)),
        polyTreeToThreeShapesInitial(ClipperUnion(inputPaths)),
        polyTreeToThreeShapesInitial(
            IF initialPaths # <<>> THEN ClipperUnion(initialPaths) ELSE <<>>),
        clipOfOutline(inputPaths, off)
            \cup (IF initialPaths # <<>>
                  THEN LogOf("union", "subject", initialPaths) ELSE {}),
        kr)

\* (text?.charAt(0)?.toUpperCase()) || "A"
initialCharStr(t) == IF t = <<>> THEN <<"a">> ELSE <<Head(t)>>

rebuildInitial(t, off, kr) ==
    initialStage(glyphInputPaths(generateShapes(textOrSpace(t))),
                 glyphInputPaths(generateShapes(initialCharStr(t))), off, kr)

(* rebuildMeshes, BasicName: part_001 lines 178-610 *)

\* createRoundedRectShape(halfW, halfH, 0).getPoints(): the four corners and
\* the closing point
rectPoints(w, h) == << <<-w, h>>, <<w, h>>, <<w, -h>>, <<-w, -h>>, <<-w, h>> >>

\* shapeToPath(shape, clockwise): no path (null) below 3 points
shapeToPath(pts, clockwise) ==
    IF Len(toPath(pts)) < 3 THEN <<>>
    ELSE <<Path(ensureCW(toPath(pts), clockwise), TRUE, "rect")>>

\* collectPaths / collectAllContours: every contour of at least 3 points below
\* a node, holes included
RECURSIVE collectPaths(_, _)
collectPaths(ns, n) ==
    (IF Len(Contour(ns, n)) >= 3 THEN <<Path(Contour(ns, n), FALSE, "tree")>> ELSE <<>>)
    \o Flatten([k \in 1..Len(Childs(ns, n)) |-> collectPaths(ns, Childs(ns, n)[k])])

nonHoleRoots(ns) == SelectSeq(Childs(ns, 0), LAMBDA n : ~IsHole(ns, n))

collectPathsOfRoots(ns) ==
    Flatten([k \in 1..Len(nonHoleRoots(ns)) |-> collectPaths(ns, nonHoleRoots(ns)[k])])

\* contours of at least 3 points of the non-hole roots
rootContours(ns) ==
    [k \in 1..Len(usableRoots(ns)) |->
        Path(Contour(ns, usableRoots(ns)[k]), FALSE, "tree")]

\* the plate: 10 x 6 in font-point units, the disc on its left edge, the
\* border 2 wide
platePaths ==
    [rect |-> shapeToPath(rectPoints(10 * SCALE, 6 * SCALE), TRUE),
     disc |-> circleToPath([empty |-> FALSE, minX |-> -5 * SCALE, maxY |-> 0],
                           2 * SCALE, TRUE),
     hole |-> circleToPath([empty |-> FALSE, minX |-> -5 * SCALE, maxY |-> 0],
                           SCALE, FALSE),
     inner |-> shapeToPath(rectPoints(6 * SCALE, 2 * SCALE), FALSE)]

Cleared(clip) ==
    [ran |-> TRUE, threw |-> FALSE, layers |-> <<>>, clip |-> clip, extrude |-> {}]

\* lines 339-358, 537-585: base, top border if it has a shape, text if the
\* trimmed text has shapes
extrudeBasicName(mergedShape, topMergedShape, shapes, clip) ==
    [ran |-> TRUE,
     threw |-> FALSE,
     layers |-> <<Layer("base", mergedShape)>>
                \o (IF topMergedShape # <<>>
                    THEN <<Layer("border", topMergedShape)>> ELSE <<>>)
                \o (IF shapes # <<>> THEN <<Layer("text", shapes)>> ELSE <<>>),
     clip |-> clip,
     extrude |-> {ExtrudeEntry("base", mergedShape)}
                 \cup (IF topMergedShape # <<>>
                       THEN {ExtrudeEntry("border", topMergedShape)} ELSE {})
                 \cup (IF shapes # <<>>
                       THEN {[layer |-> "text", n |-> Len(shapes), hasNull |-> FALSE]}
                       ELSE {})]

\* lines 472-535: merged outer contours minus the rect hole and the disc hole
topDiffStage(p, mergedShape, shapes, clip, mergedOuterPaths, rectHoleOnlyPaths) ==
    extrudeBasicName(
        mergedShape,
        topMergedShapeBasicName(
            ClipperDifference(mergedOuterPaths, rectHoleOnlyPaths \o <<p.hole>>)),
        shapes,
        clip \cup LogOf("difference", "subject", mergedOuterPaths)
             \cup LogOf("difference", "clip", rectHoleOnlyPaths \o <<p.hole>>))

\* lines 419-471: border united with the disc; the rect hole outside the disc
topUnionStage(p, mergedShape, shapes, clip, borderOuterPaths) ==
    topDiffStage(p, mergedShape, shapes,
                 clip \cup LogOf("union", "subject", borderOuterPaths \o <<p.disc>>)
                      \cup LogOf("difference", "subject", p.inner)
                      \cup LogOf("difference", "clip", <<p.disc>>),
                 rootContours(ClipperUnion(borderOuterPaths \o <<p.disc>>)),
                 collectPathsOfRoots(ClipperDifference(p.inner, <<p.disc>>)))

\* lines 337-417: `if (!mergedShape) return`, else the border: outer rect
\* minus inner rect
mergedStage(p, mergedShape, shapes, clip) ==
    IF mergedShape = <<>> THEN Cleared(clip)
    ELSE topUnionStage(p, mergedShape, shapes,
                       clip \cup LogOf("difference", "subject", p.rect)
                            \cup LogOf("difference", "clip", p.inner),
                       rootContours(ClipperDifference(p.rect, p.inner)))

\* lines 283-335: the union's contours minus the hole, then the root walk
diffStage(p, shapes, subjectPaths) ==
    mergedStage(p,
                mergedShapeBasicName(ClipperDifference(subjectPaths, <<p.hole>>)),
                shapes,
                LogOf("union", "subject", p.rect \o <<p.disc>>)
                \cup LogOf("difference", "subject", subjectPaths)
                \cup LogOf("difference", "clip", <<p.hole>>))

\* lines 258-302: `if (!rectPath) return`, else rect united with the disc
plateStage(p, shapes) ==
    IF p.rect = <<>> THEN Cleared({})
    ELSE diffStage(p, shapes,
                   collectPathsOfRoots(ClipperUnion(p.rect \o <<p.disc>>)))

\* lines 559-564: (textContent ?? "").trim(); no text, no shapes
rebuildBasicName(t) == plateStage(platePaths, generateShapes(trim(t)))

(* rebuildMeshes, Flower: FlowerDesigner.svelte lines 196-301 *)

rebuildFlower(t) ==
    LET trimmed == trim(t)
        charToRender == IF trimmed = <<>> THEN <<>> ELSE <<Head(trimmed)>>
        shapes == generateShapes(charToRender)
        withChar == charToRender # <<>> /\ shapes # <<>>
    IN  [ran |-> TRUE,
         threw |-> FALSE,
         layers |-> << [kind |-> "base", regions |-> 1], [kind |-> "top", regions |-> 1] >>
                    \o (IF withChar
                        THEN <<Layer("text", shapes), Layer("text", shapes)>> ELSE <<>>),
         clip |-> {},
         extrude |-> IF withChar
                     THEN {[layer |-> "text", n |-> Len(shapes), hasNull |-> FALSE]}
                     ELSE {}]

\* the entry guard of rebuildMeshes, then the variant's pipeline
rebuildMeshes(v, sc, as, t, off, kr) ==
    CASE v = "TextOutline" ->
            IF ~sc \/ "font" \notin as THEN NotRun ELSE rebuildOutline(t, off, kr)
      [] v = "Initial" ->
            IF ~sc \/ "font" \notin as THEN NotRun ELSE rebuildInitial(t, off, kr)
      [] v = "BasicName" -> IF ~sc THEN NotRun ELSE rebuildBasicName(t)
      [] v = "Flower" ->
            IF ~sc \/ ~({"base", "top"} \subseteq as) THEN NotRun ELSE rebuildFlower(t)

----------------------------------------------------------------------------
(* exportSTL.  The call runs to `await checkLicenseStatus(user)` and is     *)
(* resumed with the status; the rest runs without a further suspend point.  *)

\* checkLicenseStatus(user) for a signed-in user: auth.ts lines 403-497
LicenseStatuses ==
    { [type |-> "trial", canExport |-> TRUE],
      [type |-> "licensed", canExport |-> TRUE],
      [type |-> "expired", canExport |-> FALSE] }

\* what one step of an exportSTL call did
NoStep ==
    [call |-> 0, step |-> "none", checked |-> FALSE, canExport |-> FALSE,
     type |-> "none", rebuilt |-> FALSE, geometries |-> 0, serialized |-> FALSE,
     bufLen |-> 0, downloaded |-> FALSE, thankYou |-> FALSE, error |-> FALSE,
     loginRequested |-> FALSE, modalOpened |-> FALSE,
     solids |-> 0, pipeline |-> <<>>]

\* STLExporter.parse(mesh, {binary: true}): 80-byte header, 4-byte count,
\* 50 bytes per triangle; `short` is a result below that minimum (the case
\* the callers' byteLength guard is written for)
triangles(layers) == SumSeq([k \in 1..Len(layers) |-> layers[k].regions])

byteLength(layers, short) ==
    IF short THEN 0 ELSE MIN_STL_BYTES + 50 * triangles(layers)

Checked(id, status) ==
    [NoStep EXCEPT !.call = id, !.checked = TRUE, !.canExport = status.canExport,
                   !.type = status.type]

\* a continuation that ignores status.canExport
Denied_ExportsAnyway(id, status) ==
    [Checked(id, status) EXCEPT !.step = "done", !.serialized = TRUE,
                                !.downloaded = TRUE]

\* licenseModalRef?.open(); return
Denied(id, status) ==
    [Checked(id, status) EXCEPT !.step = "denied", !.modalOpened = TRUE]

\* TextOutline part_000 lines 225-259, Flower lines 315-345: rebuild, collect,
\* merge, weld, serialize, download if >= 84 bytes, thank-you for a trial.
\* `pipeline` lists the steps exportSTL itself takes on the way to the buffer:
\* "bake" (geometry.clone().applyMatrix4(matrixWorld) of every mesh), "merge"
\* (mergeGeometries), "weld" (mergeVertices(merged, 1e-3)), "serialize"
\* (STLExporter.parse); `geometries` counts the baked clones.
exportMerged(id, status, layers, threw, mergeOk, short) ==
    LET base == [Checked(id, status) EXCEPT !.step = "done", !.rebuilt = TRUE,
                                            !.geometries = Len(layers),
                                            !.solids = Len(layers)]
        len == byteLength(layers, short)
    IN  IF threw \/ layers = <<>> \/ ~mergeOk THEN base
        ELSE [base EXCEPT !.serialized = TRUE, !.bufLen = len,
                          !.downloaded = (len >= MIN_STL_BYTES),
                          !.thankYou = (status.type = "trial"),
                          !.pipeline = <<"bake", "merge", "weld", "serialize">>]

\* BasicName part_001 lines 622-659: rebuild, collect, merge, serialize (no
\* mergeVertices) inside try / catch, every failure thrown and caught into
\* exportError
exportBasicName(id, status, sc, layers, threw, mergeOk, short) ==
    LET base == [Checked(id, status) EXCEPT !.step = "done", !.rebuilt = sc,
                                            !.geometries = Len(layers),
                                            !.solids = Len(layers)]
        len == byteLength(layers, short)
    IN  IF ~sc \/ threw \/ layers = <<>> \/ ~mergeOk
        THEN [base EXCEPT !.error = TRUE]
        ELSE IF len < MIN_STL_BYTES
        THEN [base EXCEPT !.serialized = TRUE, !.bufLen = len, !.error = TRUE,
                          !.pipeline = <<"bake", "merge", "serialize">>]
        ELSE [base EXCEPT !.serialized = TRUE, !.bufLen = len, !.downloaded = TRUE,
                          !.thankYou = (status.type = "trial"),
                          !.pipeline = <<"bake", "merge", "serialize">>]

\* Initial part_002 lines 251-264: the group as it is goes to the exporter,
\* the result is downloaded
exportInitial(id, status, layers, short) ==
    [Checked(id, status) EXCEPT !.step = "done", !.solids = Len(layers),
                                !.pipeline = <<"serialize">>,
                                !.serialized = TRUE,
                                !.bufLen = byteLength(layers, short),
                                !.downloaded = TRUE,
                                !.thankYou = (status.type = "trial")]

----------------------------------------------------------------------------
(* Specification Spec: one mounted designer *)

OutlineOffsets == {0, 10}

NoRebuild ==
    [called |-> FALSE, ran |-> FALSE, threw |-> FALSE, scene |-> FALSE,
     suspended |-> FALSE, didInitFrame |-> FALSE, framed |-> FALSE]

TreeIdle == nodes = <<>> /\ shapesOut = <<>> /\ treePc = "off"

NoDepths ==
    [baseDepth |-> 0, textDepth |-> 0, topBorderDepth |-> 0, initialDepth |-> 0,
     topDepth |-> 0, charDepth |-> 0]

NoRing == [outer |-> 0, inner |-> 0]

LayersIdle ==
    /\ depths = NoDepths
    /\ keyringSize = [outer |-> 0, hole |-> 0]
    /\ stack = <<>>
    /\ ringRadii = NoRing

HeapIdle == meshes = <<>> /\ disposed = {} /\ earlier = {} /\ allocated = 0

Browsers == {"b1", "b2"}
Accounts == {"a1", "a2"}
Licenses == {"L1"}
NoLicense == "none"
NoAccount == "none"

\* what a licensing call returned: a LicenseStatus (checkLicenseStatus), a
\* success flag and an error (activateLicense) or a boolean
\* (validateDeviceActivation); `validated` and `rejected` record what
\* validateDeviceActivation returned inside a checkLicenseStatus call
NoResult ==
    [type |-> "none", canExport |-> FALSE, trialDaysRemaining |-> 0,
     success |-> FALSE, error |-> "", validated |-> FALSE, rejected |-> FALSE]

NoCall ==
    [fn |-> "none", pc |-> "idle", user |-> NoAccount, license |-> NoLicense,
     count |-> 0, existing |-> FALSE, trialInitialized |-> FALSE,
     rejected |-> FALSE, result |-> NoResult]

LicenseIdle ==
    /\ activations = {}
    /\ storedLicense = [b \in Browsers |-> NoLicense]
    /\ signedIn = [b \in Browsers |-> NoAccount]
    /\ licenseCall = [b \in Browsers |-> NoCall]
    /\ trials = {}
    /\ now = 0

\* App.svelte's state before a session is known
NoApp ==
    [user |-> NoAccount, licenseStatus |-> "null", licenseValidationInterval |-> 0,
     scheduled |-> {}, subscribed |-> FALSE]

AppIdle == app = NoApp /\ appCalls = {}

NoFonts ==
    [fontKey |-> "", lastFont |-> "", initialFontKey |-> "", charFontKey |-> "",
     font |-> "", licenseStatus |-> "null"]

FontIdle == fontState = NoFonts /\ builtFonts = {}

Init ==
    /\ variant \in Variants
    /\ user \in {NoUser} \cup Users
    /\ scene = FALSE
    /\ assets = {}
    /\ text \in {<<>>, <<"a">>}
    /\ outlineOffsetPx = 10
    /\ keyringEnabled = TRUE
    /\ group = <<>>
    /\ lastRebuild = NoRebuild
    /\ clipLog = {}
    /\ extrudeLog = {}
    /\ awaiting = {}
    /\ last = NoStep
    /\ exportError = ""
    /\ TreeIdle
    /\ LayersIdle
    /\ HeapIdle
    /\ LicenseIdle
    /\ AppIdle
    /\ FontIdle

\* one call of rebuildMeshes with the parameter values t, off, kr: a call
\* that returns at its guard leaves the composite as it is.  `waiting` are the
\* exportSTL calls suspended at their license check while this call runs.
\* a rebuild that leaves the composite cleared while an exportSTL call waits
\* for its license check
ApplyRebuild_LeavesClearedWhileExporting(rb, sc, waiting) ==
    /\ group' = IF rb.ran THEN (IF waiting # {} THEN <<>> ELSE rb.layers) ELSE group
    /\ clipLog' = IF rb.ran THEN rb.clip ELSE clipLog
    /\ extrudeLog' = IF rb.ran THEN rb.extrude ELSE extrudeLog
    /\ lastRebuild' = [called |-> TRUE, ran |-> rb.ran, threw |-> rb.threw, scene |-> sc,
                       suspended |-> waiting # {},
                       didInitFrame |-> lastRebuild.didInitFrame \/ (rb.ran /\ ~rb.threw),
                       framed |-> rb.ran /\ ~rb.threw /\ ~lastRebuild.didInitFrame]

\* a rebuild that adds its meshes to those the group already holds
ApplyRebuild_NoClear(rb, sc, waiting) ==
    /\ group' = IF rb.ran THEN group \o rb.layers ELSE group
    /\ clipLog' = IF rb.ran THEN rb.clip ELSE clipLog
    /\ extrudeLog' = IF rb.ran THEN rb.extrude ELSE extrudeLog
    /\ lastRebuild' = [called |-> TRUE, ran |-> rb.ran, threw |-> rb.threw, scene |-> sc,
                       suspended |-> waiting # {},
                       didInitFrame |-> lastRebuild.didInitFrame \/ (rb.ran /\ ~rb.threw),
                       framed |-> rb.ran /\ ~rb.threw /\ ~lastRebuild.didInitFrame]

\* dispose and clear, then the variant's pipeline; at the end the first
\* rebuild that got there frames the camera (`if (!didInitFrame)`)
ApplyRebuild(rb, sc, waiting) ==
    /\ group' = IF rb.ran THEN rb.layers ELSE group
    /\ clipLog' = IF rb.ran THEN rb.clip ELSE clipLog
    /\ extrudeLog' = IF rb.ran THEN rb.extrude ELSE extrudeLog
    /\ lastRebuild' = [called |-> TRUE, ran |-> rb.ran, threw |-> rb.threw, scene |-> sc,
                       suspended |-> waiting # {},
                       didInitFrame |-> lastRebuild.didInitFrame \/ (rb.ran /\ ~rb.threw),
                       framed |-> rb.ran /\ ~rb.threw /\ ~lastRebuild.didInitFrame]

CallRebuild(sc, as, t, off, kr, waiting) ==
    ApplyRebuild(rebuildMeshes(variant, sc, as, t, off, kr), sc, waiting)

\* the `$effect` that follows a parameter change: `if (!scene) return`
\* (Flower: `if (!scene || !baseGeometry || !topGeometry) return`)
EffectRuns(sc, as) ==
    IF variant = "Flower" THEN sc /\ {"base", "top"} \subseteq as ELSE sc

RebuildEffect(t, off, kr) ==
    IF EffectRuns(scene, assets)
    THEN CallRebuild(scene, assets, t, off, kr, awaiting)
    ELSE UNCHANGED <<group, clipLog, extrudeLog, lastRebuild>>

\* onMount: font, scene and group are created, then rebuildMeshes()
\* (Flower starts the two STL loads instead)
Mount ==
    /\ ~scene
    /\ scene' = TRUE
    /\ assets' = IF variant \in {"TextOutline", "Initial"} THEN {"font"} ELSE {}
    /\ IF variant = "Flower"
       THEN UNCHANGED <<group, clipLog, extrudeLog, lastRebuild>>
       ELSE CallRebuild(TRUE, assets', text, outlineOffsetPx, keyringEnabled, awaiting)
    /\ UNCHANGED <<variant, user, text, outlineOffsetPx, keyringEnabled,
                   awaiting, last, exportError, nonDesignerVars>>

\* Flower: loader.load callback of base.stl / top.stl; the second one rebuilds
StlLoaded(name) ==
    /\ variant = "Flower"
    /\ scene
    /\ name \notin assets
    /\ assets' = assets \cup {name}
    /\ IF assets' = {"base", "top"}
       THEN CallRebuild(scene, assets', text, outlineOffsetPx, keyringEnabled, awaiting)
       ELSE UNCHANGED <<group, clipLog, extrudeLog, lastRebuild>>
    /\ UNCHANGED <<variant, user, scene, text, outlineOffsetPx, keyringEnabled,
                   awaiting, last, exportError, nonDesignerVars>>

\* the text input (text / textContent / char), then the rebuild effect
EditText(t) ==
    /\ t # text
    /\ text' = t
    /\ RebuildEffect(t, outlineOffsetPx, keyringEnabled)
    /\ UNCHANGED <<variant, user, scene, assets, outlineOffsetPx, keyringEnabled,
                   awaiting, last, exportError, nonDesignerVars>>

\* the outline slider (TextOutline, Initial), then the rebuild effect
EditOutline(off) ==
    /\ variant \in {"TextOutline", "Initial"}
    /\ off # outlineOffsetPx
    /\ outlineOffsetPx' = off
    /\ RebuildEffect(text, off, keyringEnabled)
    /\ UNCHANGED <<variant, user, scene, assets, text, keyringEnabled,
                   awaiting, last, exportError, nonDesignerVars>>

\* the keyring toggle (TextOutline, Initial), then the rebuild effect
ToggleKeyring ==
    /\ variant \in {"TextOutline", "Initial"}
    /\ keyringEnabled' = ~keyringEnabled
    /\ RebuildEffect(text, outlineOffsetPx, keyringEnabled')
    /\ UNCHANGED <<variant, user, scene, assets, text, outlineOffsetPx,
                   awaiting, last, exportError, nonDesignerVars>>

\* the `user` prop changes
SignIn(u) ==
    /\ user = NoUser
    /\ user' = u
    /\ UNCHANGED <<variant, scene, assets, text, outlineOffsetPx, keyringEnabled,
                   group, lastRebuild, clipLog, extrudeLog, awaiting, last,
                   exportError, nonDesignerVars>>

SignOut ==
    /\ user # NoUser
    /\ user' = NoUser
    /\ UNCHANGED <<variant, scene, assets, text, outlineOffsetPx, keyringEnabled,
                   group, lastRebuild, clipLog, extrudeLog, awaiting, last,
                   exportError, nonDesignerVars>>

\* exportSTL up to its suspend point: `if (!group || !scene) return`
\* (not in BasicName), `if (!user) { onRequestLogin(); return }`, then
\* `await checkLicenseStatus(user)`
ExportCall(id) ==
    /\ id \in (1..MaxInFlight) \ awaiting
    /\ variant # "BasicName" => scene
    /\ IF user = NoUser
       THEN /\ last' = [NoStep EXCEPT !.call = id, !.step = "noUser",
                                      !.loginRequested = TRUE]
            /\ UNCHANGED awaiting
       ELSE /\ last' = [NoStep EXCEPT !.call = id, !.step = "awaiting"]
            /\ awaiting' = awaiting \cup {id}
    /\ UNCHANGED <<variant, user, scene, assets, text, outlineOffsetPx,
                   keyringEnabled, group, lastRebuild, clipLog, extrudeLog,
                   exportError, nonDesignerVars>>

\* checkLicenseStatus resolves with `status`; exportSTL runs to its end.
\* mergeOk: BufferGeometryUtils.mergeGeometries returned a geometry;
\* short: the exporter's buffer is below the minimum
ExportResume(id, status, mergeOk, short) ==
    /\ id \in awaiting
    /\ awaiting' = awaiting \ {id}
    /\ IF ~status.canExport
       THEN /\ last' = Denied(id, status)
            /\ UNCHANGED <<group, lastRebuild, clipLog, extrudeLog, exportError>>
       ELSE IF variant = "Initial"
       THEN /\ last' = exportInitial(id, status, group, short)
            /\ UNCHANGED <<group, lastRebuild, clipLog, extrudeLog, exportError>>
       ELSE IF variant = "BasicName"
       THEN /\ IF scene
               THEN CallRebuild(scene, assets, text, outlineOffsetPx, keyringEnabled,
                                awaiting \ {id})
               ELSE UNCHANGED <<group, lastRebuild, clipLog, extrudeLog>>
            /\ last' = exportBasicName(id, status, scene, group', lastRebuild'.threw,
                                       mergeOk, short)
            /\ exportError' = IF last'.error THEN "error" ELSE ""
       ELSE /\ CallRebuild(scene, assets, text, outlineOffsetPx, keyringEnabled,
                           awaiting \ {id})
            /\ last' = exportMerged(id, status, group', lastRebuild'.threw,
                                    mergeOk, short)
            /\ UNCHANGED exportError
    /\ UNCHANGED <<variant, user, scene, assets, text, outlineOffsetPx,
                   keyringEnabled, nonDesignerVars>>

Next ==
    \/ Mount
    \/ \E name \in {"base", "top"} : StlLoaded(name)
    \/ \E t \in Texts : EditText(t)
    \/ \E off \in OutlineOffsets : EditOutline(off)
    \/ ToggleKeyring
    \/ \E u \in Users : SignIn(u)
    \/ SignOut
    \/ \E id \in 1..MaxInFlight : ExportCall(id)
    \/ \E id \in 1..MaxInFlight, status \in LicenseStatuses, mergeOk \in BOOLEAN,
          short \in BOOLEAN : ExportResume(id, status, mergeOk, short)

Spec == Init /\ [][Next]_vars

----------------------------------------------------------------------------
(* Specification SpecTree: the Shape Reconstructor on arbitrary trees *)

InitTree ==
    /\ variant = "TextOutline"
    /\ user = NoUser
    /\ scene = FALSE
    /\ assets = {}
    /\ text = <<>>
    /\ outlineOffsetPx = 0
    /\ keyringEnabled = FALSE
    /\ group = <<>>
    /\ lastRebuild = NoRebuild
    /\ clipLog = {}
    /\ extrudeLog = {}
    /\ awaiting = {}
    /\ last = NoStep
    /\ exportError = ""
    /\ nodes = <<>>
    /\ shapesOut = <<>>
    /\ treePc = "build"
    /\ LayersIdle
    /\ HeapIdle
    /\ LicenseIdle
    /\ AppIdle
    /\ FontIdle

\* the tree grows by a node with contour c under parent p (0: a new root)
AddNode(p, c) ==
    /\ treePc = "build"
    /\ Len(nodes) < MaxNodes
    /\ p \in 0..Len(nodes)
    /\ nodes' = Append(nodes, [parent |-> p, contour |-> c])
    /\ UNCHANGED <<shapesOut, treePc, nonTreeVars>>

\* the reconstructor of variant v runs on the tree
Reconstruct(v) ==
    /\ treePc = "build"
    /\ shapesOut' = Reconstructor(v, nodes)
    /\ treePc' = v
    /\ UNCHANGED <<nodes, nonTreeVars>>

NextTree ==
    \/ \E p \in 0..MaxNodes, c \in Contours : AddNode(p, c)
    \/ \E v \in TreeVariants : Reconstruct(v)

SpecTree == InitTree /\ [][NextTree]_vars

----------------------------------------------------------------------------
(* Layer placement and keyring radii.  Lengths are integers in 1/1000 of a  *)
(* unit: 0.2 is 200, 0.005 is 5.                                            *)

TEXT_BASE_EMBED == 200
BORDER_BASE_EMBED == 50
FLOWER_TOP_BASE_EMBED == 50
KEYRING_DEPTH == 4000

\* the depth parameters each designer starts with
DefaultDepths(v) ==
    CASE v = "TextOutline" -> [NoDepths EXCEPT !.baseDepth = 3000, !.textDepth = 2000]
      [] v = "Initial" -> [NoDepths EXCEPT !.baseDepth = 1000, !.textDepth = 1000,
                                            !.initialDepth = 10000]
      [] v = "BasicName" -> [NoDepths EXCEPT !.baseDepth = 2000, !.textDepth = 800,
                                              !.topBorderDepth = 1000]
      [] v = "Flower" -> [NoDepths EXCEPT !.baseDepth = 1000, !.topDepth = 1000,
                                           !.charDepth = 1000]

\* the depth sliders of each designer and their `min` attribute
SliderMin(v) ==
    CASE v = "TextOutline" -> [baseDepth |-> 1000, textDepth |-> 1000]
      [] v = "Initial" -> [initialDepth |-> 1000, baseDepth |-> 200, textDepth |-> 1000]
      [] v = "BasicName" -> [baseDepth |-> 200, topBorderDepth |-> 200, textDepth |-> 200]
      [] v = "Flower" -> [baseDepth |-> 200, topDepth |-> 200, charDepth |-> 200]

\* the mesh of one layer as rebuildMeshes places it: position.z, extrusion
\* depth, and the layer it is stacked on ("" for a layer standing on z = 0)
Placed(layer, z, depth, on) ==
    [kind |-> layer.kind, regions |-> layer.regions, z |-> z, depth |-> depth, on |-> on]

\* part_000 lines 526-556
placeOutline(d, layer) ==
    IF layer.kind = "base" THEN Placed(layer, 0, Max(100, d.baseDepth), "")
    ELSE Placed(layer, Max(100, d.baseDepth) - TEXT_BASE_EMBED,
                Max(100, d.textDepth), "base")

\* part_001 lines 339-358, 537-585
placeBasicName(d, layer) ==
    CASE layer.kind = "base" -> Placed(layer, 0, Max(100, d.baseDepth), "")
      [] layer.kind = "border" ->
            Placed(layer, d.baseDepth - BORDER_BASE_EMBED,
                   Max(100, d.topBorderDepth), "base")
      [] layer.kind = "text" ->
            Placed(layer, d.baseDepth - TEXT_BASE_EMBED, Max(10, d.textDepth), "base")

\* part_002 lines 447-536: with an initial letter the base is put on the
\* initial's platform and the text on the base, each a little above
placeInitial(d, layer, hasInitial) ==
    CASE layer.kind = "initial" -> Placed(layer, 5, Max(100, d.initialDepth), "")
      [] layer.kind = "initialBase" -> Placed(layer, 0, Max(100, d.initialDepth), "")
      [] layer.kind = "base" ->
            IF hasInitial
            THEN Placed(layer, Max(100, d.initialDepth) + 10,
                        Max(100, d.baseDepth), "initialBase")
            ELSE Placed(layer, 0, Max(100, d.baseDepth), "")
      [] layer.kind = "text" ->
            IF hasInitial
            THEN Placed(layer, Max(100, d.initialDepth) + Max(100, d.baseDepth) + 20,
                        Max(100, d.textDepth), "base")
            ELSE Placed(layer, Max(100, d.baseDepth) - 20, Max(100, d.textDepth), "base")
      [] layer.kind = "ring" -> Placed(layer, 0, Max(100, KEYRING_DEPTH), "")

\* FlowerDesigner.svelte lines 214-272
placeFlower(d, layer) ==
    CASE layer.kind = "base" -> Placed(layer, 0, Max(10, d.baseDepth), "")
      [] layer.kind = "top" ->
            Placed(layer, Max(10, d.baseDepth) - FLOWER_TOP_BASE_EMBED,
                   Max(10, d.topDepth), "base")
      [] layer.kind = "text" ->
            Placed(layer,
                   Max(10, d.baseDepth) - FLOWER_TOP_BASE_EMBED + Max(10, d.topDepth) + 10,
                   Max(10, d.charDepth), "top")

placeLayers(v, d, layers) ==
    [k \in 1..Len(layers) |->
        CASE v = "TextOutline" -> placeOutline(d, layers[k])
          [] v = "BasicName" -> placeBasicName(d, layers[k])
          [] v = "Initial" ->
                placeInitial(d, layers[k],
                             \E j \in 1..Len(layers) : layers[j].kind = "initial")
          [] v = "Flower" -> placeFlower(d, layers[k])]

\* TextOutline, part_000 lines 417-421, without the clamp of the hole radius
keyringRadiiOutline_NoClamp(outerSize, holeSize) ==
    [outer |-> Max(100, outerSize \div 2), inner |-> Max(50, holeSize \div 2)]

\* TextOutline, part_000 lines 417-421: outerR and innerR
keyringRadiiOutline(outerSize, holeSize) ==
    [outer |-> Max(100, outerSize \div 2),
     inner |-> Min(Max(50, holeSize \div 2), Max(100, outerSize \div 2) - 100)]

\* part_003 lines 202-206: outerRadius and innerRadius
makeKeyringGeometry(outerDiameter, innerDiameter) ==
    [outer |-> Max(100, outerDiameter \div 2),
     inner |-> Min(Max(50, innerDiameter \div 2), Max(100, outerDiameter \div 2) - 100)]

\* Initial, part_002 lines 516-521: the sizes are clamped, then handed over
keyringRadiiInitial(outerSize, holeSize) ==
    makeKeyringGeometry(Max(1000, outerSize), Max(100, Min(holeSize, outerSize - 500)))

keyringRadii(v, kr, ks) ==
    IF ~kr THEN NoRing
    ELSE CASE v = "TextOutline" -> keyringRadiiOutline(ks.outer, ks.hole)
           [] v = "Initial" -> keyringRadiiInitial(ks.outer, ks.hole)
           [] OTHER -> NoRing

----------------------------------------------------------------------------
(* Specification SpecLayers: one mounted designer whose assets are loaded;  *)
(* the depth sliders, the keyring sliders and the text input, each followed *)
(* by the rebuild.                                                          *)

DepthValues == {200, 1000, 3000}
OuterSizes == {4000, 8000, 15000}
HoleSizes == {2000, 4000, 7000, 14000}
LayerTexts == { <<>>, <<"a">>, <<"sp", "a">> }
AllAssets == {"font", "base", "top"}

\* rebuildMeshes with the parameter values d, ks, t: the meshes and the ring
Restack(d, ks, t) ==
    /\ stack' = placeLayers(variant, d,
                    rebuildMeshes(variant, TRUE, AllAssets, t, outlineOffsetPx,
                                  keyringEnabled).layers)
    /\ ringRadii' = keyringRadii(variant, keyringEnabled, ks)

InitLayers ==
    /\ variant \in Variants
    /\ user = NoUser
    /\ scene = TRUE
    /\ assets = AllAssets
    /\ text = <<"a">>
    /\ outlineOffsetPx = 10
    /\ keyringEnabled = TRUE
    /\ group = <<>>
    /\ lastRebuild = NoRebuild
    /\ clipLog = {}
    /\ extrudeLog = {}
    /\ awaiting = {}
    /\ last = NoStep
    /\ exportError = ""
    /\ TreeIdle
    /\ depths = DefaultDepths(variant)
    /\ keyringSize = [outer |-> KEYRING_OUTER_SIZE * 1000, hole |-> KEYRING_HOLE_SIZE * 1000]
    /\ stack = placeLayers(variant, depths,
                   rebuildMeshes(variant, TRUE, AllAssets, text, outlineOffsetPx,
                                 keyringEnabled).layers)
    /\ ringRadii = keyringRadii(variant, keyringEnabled, keyringSize)
    /\ HeapIdle
    /\ LicenseIdle
    /\ AppIdle
    /\ FontIdle

layerFrame == <<variant, user, scene, assets, outlineOffsetPx, keyringEnabled, group,
                lastRebuild, clipLog, extrudeLog, awaiting, last, exportError, treeVars,
                heapVars, licenseVars, appVars, fontVars>>

\* a depth slider; in Initial a change of initialDepth first shifts baseDepth
\* by the same amount (part_002 lines 662-670)
DepthSlider(field, v) ==
    /\ field \in DOMAIN SliderMin(variant)
    /\ v >= SliderMin(variant)[field]
    /\ v # depths[field]
    /\ depths' = IF variant = "Initial" /\ field = "initialDepth"
                 THEN [depths EXCEPT !.initialDepth = v,
                                     !.baseDepth = Max(200, depths.baseDepth + v
                                                            - depths.initialDepth)]
                 ELSE [depths EXCEPT ![field] = v]
    /\ Restack(depths', keyringSize, text)
    /\ UNCHANGED <<layerFrame, text, keyringSize>>

\* the outer-size slider (min 4, max 15)
KeyringOuterSlider(v) ==
    /\ variant \in {"TextOutline", "Initial"}
    /\ v # keyringSize.outer
    /\ keyringSize' = [keyringSize EXCEPT !.outer = v]
    /\ Restack(depths, keyringSize', text)
    /\ UNCHANGED <<layerFrame, text, depths>>

\* the hole-size slider (min 2, max = Math.max(1, keyringOuterSize - 1)); the
\* value it has set stays when the outer size is lowered afterwards
KeyringHoleSlider(v) ==
    /\ variant \in {"TextOutline", "Initial"}
    /\ v # keyringSize.hole
    /\ v <= Max(1000, keyringSize.outer - 1000)
    /\ keyringSize' = [keyringSize EXCEPT !.hole = v]
    /\ Restack(depths, keyringSize', text)
    /\ UNCHANGED <<layerFrame, text, depths>>

\* the text input
TextInput(t) ==
    /\ t # text
    /\ text' = t
    /\ Restack(depths, keyringSize, t)
    /\ UNCHANGED <<layerFrame, depths, keyringSize>>

NextLayers ==
    \/ \E field \in DOMAIN NoDepths, v \in DepthValues : DepthSlider(field, v)
    \/ \E v \in OuterSizes : KeyringOuterSlider(v)
    \/ \E v \in HoleSizes : KeyringHoleSlider(v)
    \/ \E t \in LayerTexts : TextInput(t)

SpecLayers == InitLayers /\ [][NextLayers]_vars

----------------------------------------------------------------------------
(* Specification SpecHeap: the geometry and material objects of the         *)
(* composite.  Objects are numbered in the order of their creation.         *)

MaxObjects == 40

\* the materials one rebuild creates: base, second (text / border / top),
\* third (BasicName text, Flower character)
MATERIALS_PER_REBUILD == 3

\* the material a mesh of this kind is given, n objects having been created
\* before: part_000 lines 515-547, part_001 lines 349-577, part_002 lines
\* 402-527 (textMat serves the initial, its platform, the text and the ring),
\* FlowerDesigner.svelte lines 202-264
materialOf(v, kind, n) ==
    CASE kind = "base" -> n + 1
      [] kind \in {"border", "top", "initial", "initialBase", "ring"} -> n + 2
      [] kind = "text" -> IF v \in {"BasicName", "Flower"} THEN n + 3 ELSE n + 2

\* the geometry of layer k: a new ExtrudeGeometry (or a clone of the STL
\* geometry) per mesh; Flower's two character meshes share charGeo
geometryOf(v, layers, k, n) ==
    IF v = "Flower" /\ layers[k].kind = "text"
    THEN n + MATERIALS_PER_REBUILD
         + SetMin({j \in 1..Len(layers) : layers[j].kind = "text"})
    ELSE n + MATERIALS_PER_REBUILD + k

\* a rebuild that keeps its materials from one rebuild to the next
buildMeshes_CachedMaterials(v, layers, n) ==
    [k \in 1..Len(layers) |->
        [kind |-> layers[k].kind,
         geometry |-> geometryOf(v, layers, k, n),
         material |-> materialOf(v, layers[k].kind, 0)]]

\* the meshes a rebuild adds to the group
buildMeshes(v, layers, n) ==
    [k \in 1..Len(layers) |->
        [kind |-> layers[k].kind,
         geometry |-> geometryOf(v, layers, k, n),
         material |-> materialOf(v, layers[k].kind, n)]]

\* disposeObject3D(group): geometry and material of every mesh below it
objectsOf(ms) ==
    {ms[k].geometry : k \in 1..Len(ms)} \cup {ms[k].material : k \in 1..Len(ms)}

\* rebuildMeshes: dispose, clear, build anew
RebuildHeap(layers) ==
    /\ allocated + MATERIALS_PER_REBUILD + Len(layers) <= MaxObjects
    /\ disposed' = disposed \cup objectsOf(meshes)
    /\ earlier' = earlier \cup objectsOf(meshes)
    /\ meshes' = buildMeshes(variant, layers, allocated)
    /\ allocated' = allocated + MATERIALS_PER_REBUILD + Len(layers)

layersFor(t, kr) ==
    rebuildMeshes(variant, TRUE, AllAssets, t, outlineOffsetPx, kr).layers

InitHeap ==
    /\ variant \in Variants
    /\ user = NoUser
    /\ scene = TRUE
    /\ assets = AllAssets
    /\ text = <<"a">>
    /\ outlineOffsetPx = 10
    /\ keyringEnabled = TRUE
    /\ group = <<>>
    /\ lastRebuild = NoRebuild
    /\ clipLog = {}
    /\ extrudeLog = {}
    /\ awaiting = {}
    /\ last = NoStep
    /\ exportError = ""
    /\ TreeIdle
    /\ LayersIdle
    /\ LicenseIdle
    /\ AppIdle
    /\ FontIdle
    /\ meshes = buildMeshes(variant, layersFor(text, keyringEnabled), 0)
    /\ disposed = {}
    /\ earlier = {}
    /\ allocated = MATERIALS_PER_REBUILD + Len(meshes)

heapFrame == <<variant, user, scene, assets, outlineOffsetPx, group, lastRebuild,
               clipLog, extrudeLog, awaiting, last, exportError, treeVars, layerVars,
               licenseVars, appVars, fontVars>>

\* the text input, then the rebuild effect
HeapTextInput(t) ==
    /\ t # text
    /\ text' = t
    /\ RebuildHeap(layersFor(t, keyringEnabled))
    /\ UNCHANGED <<heapFrame, keyringEnabled>>

\* the keyring toggle, then the rebuild effect
HeapToggleKeyring ==
    /\ variant \in {"TextOutline", "Initial"}
    /\ keyringEnabled' = ~keyringEnabled
    /\ RebuildHeap(layersFor(text, keyringEnabled'))
    /\ UNCHANGED <<heapFrame, text>>

\* the rebuild exportSTL makes with unchanged parameters
HeapExportRebuild ==
    /\ variant # "Initial"
    /\ RebuildHeap(layersFor(text, keyringEnabled))
    /\ UNCHANGED <<heapFrame, text, keyringEnabled>>

NextHeap ==
    \/ \E t \in LayerTexts : HeapTextInput(t)
    \/ HeapToggleKeyring
    \/ HeapExportRebuild

SpecHeap == InitHeap /\ [][NextHeap]_vars

----------------------------------------------------------------------------
(* Licensing (src/lib/auth.ts): initializeTrial, activateLicense,          *)
(* validateDeviceActivation and checkLicenseStatus against the tables, the *)
(* can_user_start_trial function and the row level security policies of   *)
(* the licensing SQL script.  Every `await supabase...` is a point where   *)
(* the calls of other browsers, a sign-out and the clock interleave.       *)
(*                                                                         *)
(* Time.  `now` and the timestamps count half trial durations, so a trial  *)
(* started at t expires at t + 2.                                          *)

MaxNow == 2

TRIAL_DURATION_DAYS == 7

\* licenses.max_devices of the license the table holds
max_devices(l) == 1

\* licenses.expires_at of the license the table holds
expires_at(l) == 1

\* `expiresAt < new Date()`
licenseExpired(l, t) == expires_at(l) < t

\* "Users can view own activations": a SELECT on device_activations made at
\* browser b sees the rows whose user_id is auth.uid(), the account of the
\* browser's session
visibleAt(b) == {r \in activations : r.user_id = signedIn[b]}

\* "Users can create own activations" / "Users can create own trial": an
\* INSERT passes when its user_id is auth.uid()
mayInsert(b, row) == row.user_id = signedIn[b]

\* a device_activations row; `by` names the function that inserted it
activationRow(l, u, by) == [license_id |-> l, user_id |-> u, by |-> by]

\* .eq("license_id", license.id)
rowsOf(l) == {r \in activations : r.license_id = l}

\* .eq("user_id", userId)
rowsOfUser(u) == {r \in activations : r.user_id = u}

\* .eq("license_id", license.id).eq("user_id", userId).maybeSingle()
hasActivation(rows, l, u) == \E r \in rows : r.license_id = l /\ r.user_id = u

\* user_trials rows of a user, as the table holds them (is_active is true
\* in every row: nothing sets it to false)
trialsOf(u) == {r \in trials : r.user_id = u}

\* "Users can view own trial"
trialsAt(b) == {r \in trials : r.user_id = signedIn[b]}

\* getTrialDaysRemaining: Math.max(0, Math.ceil(diffTime / day)) of the
\* user's trial, 0 without one
getTrialDaysRemaining(b, u) ==
    IF trialsAt(b) \cap trialsOf(u) = {} THEN 0
    ELSE LET trial == CHOOSE r \in trialsAt(b) \cap trialsOf(u) : TRUE
             diffHalves == (trial.trial_expires_at - now) * TRIAL_DURATION_DAYS
         IN  Max(0, (diffHalves + 1) \div 2)

Returned(b, c, result) ==
    [licenseCall EXCEPT ![b] =
        [NoCall EXCEPT !.user = c.user, !.license = c.license,
                       !.result = result]]

InitLicense ==
    /\ variant = "TextOutline"
    /\ user = NoUser
    /\ scene = FALSE
    /\ assets = {}
    /\ text = <<>>
    /\ outlineOffsetPx = 10
    /\ keyringEnabled = TRUE
    /\ group = <<>>
    /\ lastRebuild = NoRebuild
    /\ clipLog = {}
    /\ extrudeLog = {}
    /\ awaiting = {}
    /\ last = NoStep
    /\ exportError = ""
    /\ TreeIdle
    /\ LayersIdle
    /\ HeapIdle
    /\ LicenseIdle
    /\ AppIdle
    /\ FontIdle

nonLicenseVars == <<designerVars, treeVars, layerVars, heapVars, appVars, fontVars>>

\* time passes
Tick ==
    /\ now < MaxNow
    /\ now' = now + 1
    /\ UNCHANGED <<activations, storedLicense, signedIn, licenseCall, trials,
                   nonLicenseVars>>

\* checkLicenseStatus, entered: a null user is 'expired' at once, else
\* initializeTrial starts
checkLicenseStatus(b, u) ==
    IF u = NoAccount
    THEN [NoCall EXCEPT !.result =
             [NoResult EXCEPT !.type = "expired", !.canExport = FALSE]]
    ELSE [NoCall EXCEPT !.fn = "check", !.pc = "trialSelect", !.user = u]

\* checkLicenseStatus after initializeTrial returned ok: the stored key goes
\* to validateDeviceActivation, no stored key to restoreLicenseFromServer
afterTrial(b, c, ok) ==
    IF storedLicense[b] # NoLicense
    THEN [c EXCEPT !.pc = "lookup", !.trialInitialized = ok,
                   !.license = storedLicense[b]]
    ELSE [c EXCEPT !.pc = "restore", !.trialInitialized = ok]

\* sign-in: the user is set and checkLicenseStatus(newUser) is called
SignInAt(b, u) ==
    /\ signedIn[b] = NoAccount
    /\ licenseCall[b].pc = "idle"
    /\ signedIn' = [signedIn EXCEPT ![b] = u]
    /\ licenseCall' = [licenseCall EXCEPT ![b] = checkLicenseStatus(b, u)]
    /\ UNCHANGED <<activations, storedLicense, trials, now, nonLicenseVars>>

\* handleSignOut: the session ends, localStorage keeps the license
SignOutAt(b) ==
    /\ signedIn[b] # NoAccount
    /\ signedIn' = [signedIn EXCEPT ![b] = NoAccount]
    /\ UNCHANGED <<activations, storedLicense, licenseCall, trials, now,
                   nonLicenseVars>>

\* checkLicenseStatus(user) called by exportSTL, the license modal or the
\* timer, with the user the browser has
CheckCall(b) ==
    /\ licenseCall[b].pc = "idle"
    /\ licenseCall' = [licenseCall EXCEPT ![b] = checkLicenseStatus(b, signedIn[b])]
    /\ UNCHANGED <<activations, storedLicense, signedIn, trials, now, nonLicenseVars>>

\* initializeTrial: "Check if user already has a trial"
TrialSelect(b) ==
    LET c == licenseCall[b] IN
    /\ c.pc = "trialSelect"
    /\ licenseCall' = [licenseCall EXCEPT ![b] =
                          IF trialsAt(b) \cap trialsOf(c.user) # {}
                          THEN afterTrial(b, c, TRUE)
                          ELSE [c EXCEPT !.pc = "trialRpc"]]
    /\ UNCHANGED <<activations, storedLicense, signedIn, trials, now, nonLicenseVars>>

\* initializeTrial: rpc can_user_start_trial (SECURITY DEFINER, it counts the
\* user's rows whoever asks); EXECUTE is granted to authenticated, so a call
\* made after the sign-out may also come back with an error, and an error
\* goes on to the insert
TrialRpc(b) ==
    LET c == licenseCall[b] IN
    /\ c.pc = "trialRpc"
    /\ \E functionError \in {FALSE} \cup {signedIn[b] # c.user} :
          licenseCall' = [licenseCall EXCEPT ![b] =
                             IF ~functionError /\ trialsOf(c.user) # {}
                             THEN afterTrial(b, c, FALSE)
                             ELSE [c EXCEPT !.pc = "trialInsert"]]
    /\ UNCHANGED <<activations, storedLicense, signedIn, trials, now, nonLicenseVars>>

\* initializeTrial: "Create new trial on server"; UNIQUE (user_id) answers a
\* second row with 23505, which returns true; the policy's refusal returns
\* false
TrialInsert(b) ==
    LET c == licenseCall[b]
        row == [user_id |-> c.user, trial_started_at |-> now,
                trial_expires_at |-> now + 2]
    IN
    /\ c.pc = "trialInsert"
    /\ IF ~mayInsert(b, row)
       THEN /\ licenseCall' = [licenseCall EXCEPT ![b] = afterTrial(b, c, FALSE)]
            /\ UNCHANGED trials
       ELSE IF trialsOf(c.user) # {}
       THEN /\ licenseCall' = [licenseCall EXCEPT ![b] = afterTrial(b, c, TRUE)]
            /\ UNCHANGED trials
       ELSE /\ trials' = trials \cup {row}
            /\ licenseCall' = [licenseCall EXCEPT ![b] = afterTrial(b, c, TRUE)]
    /\ UNCHANGED <<activations, storedLicense, signedIn, now, nonLicenseVars>>

\* restoreLicenseFromServer: the account's latest activation, if it has one
\* and its license has not expired, is stored in localStorage and
\* validateDeviceActivation follows; else the trial decides
CheckRestore(b) ==
    LET c == licenseCall[b]
        mine == {r \in visibleAt(b) \cap rowsOfUser(c.user) :
                    ~licenseExpired(r.license_id, now)}
    IN
    /\ c.pc = "restore"
    /\ IF mine = {}
       THEN /\ licenseCall' = [licenseCall EXCEPT ![b] = [c EXCEPT !.pc = "days"]]
            /\ UNCHANGED storedLicense
       ELSE \E r \in mine :
            /\ storedLicense' = [storedLicense EXCEPT ![b] = r.license_id]
            /\ licenseCall' = [licenseCall EXCEPT ![b] =
                                  [c EXCEPT !.pc = "lookup", !.license = r.license_id]]
    /\ UNCHANGED <<activations, signedIn, trials, now, nonLicenseVars>>

\* the timer's direct validateDeviceActivation(user.id): no stored key,
\* return false; else fetch the license
ValidateCall(b) ==
    /\ signedIn[b] # NoAccount
    /\ licenseCall[b].pc = "idle"
    /\ licenseCall' =
          IF storedLicense[b] = NoLicense
          THEN Returned(b, [NoCall EXCEPT !.user = signedIn[b]], NoResult)
          ELSE [licenseCall EXCEPT ![b] =
                   [NoCall EXCEPT !.fn = "validate", !.pc = "lookup",
                                  !.user = signedIn[b], !.license = storedLicense[b]]]
    /\ UNCHANGED <<activations, storedLicense, signedIn, trials, now, nonLicenseVars>>

\* a checkLicenseStatus that keeps the stored license when validation fails
ValidateLookup_KeepsStoredLicense(b) ==
    LET c == licenseCall[b]
        isValid == signedIn[b] # NoAccount /\ ~licenseExpired(c.license, now)
    IN
    /\ c.fn \in {"validate", "check"}
    /\ c.pc = "lookup"
    /\ IF isValid
       THEN licenseCall' = [licenseCall EXCEPT ![b] =
                               [c EXCEPT !.pc = "write",
                                         !.existing = hasActivation(visibleAt(b),
                                                                    c.license, c.user)]]
       ELSE IF c.fn = "check"
       THEN licenseCall' = [licenseCall EXCEPT ![b] =
                               [c EXCEPT !.pc = "days", !.rejected = TRUE]]
       ELSE licenseCall' = Returned(b, c, NoResult)
    /\ UNCHANGED <<activations, storedLicense, signedIn, trials, now, nonLicenseVars>>

\* validateDeviceActivation: the license is selected (GRANT SELECT ON
\* licenses TO authenticated) and must not have expired, then the account's
\* activation of it is selected; on false checkLicenseStatus clears the
\* stored license and goes on to the trial
ValidateLookup(b) ==
    LET c == licenseCall[b]
        isValid == signedIn[b] # NoAccount /\ ~licenseExpired(c.license, now)
    IN
    /\ c.fn \in {"validate", "check"}
    /\ c.pc = "lookup"
    /\ IF isValid
       THEN /\ licenseCall' = [licenseCall EXCEPT ![b] =
                                  [c EXCEPT !.pc = "write",
                                            !.existing = hasActivation(visibleAt(b),
                                                                       c.license, c.user)]]
            /\ UNCHANGED storedLicense
       ELSE IF c.fn = "check"
       THEN /\ storedLicense' = [storedLicense EXCEPT ![b] = NoLicense]
            /\ licenseCall' = [licenseCall EXCEPT ![b] =
                                  [c EXCEPT !.pc = "days", !.rejected = TRUE]]
       ELSE /\ licenseCall' = Returned(b, c, NoResult)
            /\ UNCHANGED storedLicense
    /\ UNCHANGED <<activations, signedIn, trials, now, nonLicenseVars>>

\* validateDeviceActivation: update last_validated_at, or "Create activation
\* if it doesn't exist" (the insert's error is not looked at), and return
\* true; checkLicenseStatus then returns 'licensed', or 'expired' when the
\* stored expires_at has passed
ValidateWrite(b) ==
    LET c == licenseCall[b]
        row == activationRow(c.license, c.user, "validateDeviceActivation")
    IN
    /\ c.fn \in {"validate", "check"}
    /\ c.pc = "write"
    /\ activations' = IF ~c.existing /\ mayInsert(b, row)
                         /\ ~hasActivation(activations, c.license, c.user)
                      THEN activations \cup {row}
                      ELSE activations
    /\ licenseCall' =
          IF c.fn = "validate"
          THEN Returned(b, c, [NoResult EXCEPT !.success = TRUE])
          ELSE IF licenseExpired(c.license, now)
          THEN Returned(b, c, [NoResult EXCEPT !.type = "expired", !.canExport = FALSE,
                                               !.validated = TRUE])
          ELSE Returned(b, c, [NoResult EXCEPT !.type = "licensed", !.canExport = TRUE,
                                               !.validated = TRUE])
    /\ UNCHANGED <<storedLicense, signedIn, trials, now, nonLicenseVars>>

\* a checkLicenseStatus that reports a trial without looking at the days
CheckDays_NoExpiryTest(b) ==
    LET c == licenseCall[b]
        trialDaysRemaining == getTrialDaysRemaining(b, c.user)
    IN
    /\ c.pc = "days"
    /\ licenseCall' =
          Returned(b, c, [NoResult EXCEPT !.type = "trial", !.canExport = TRUE,
                                          !.trialDaysRemaining = trialDaysRemaining,
                                          !.rejected = c.rejected])
    /\ UNCHANGED <<activations, storedLicense, signedIn, trials, now, nonLicenseVars>>

\* checkLicenseStatus: "Check trial status (server-side)"; the retries read
\* the same row again, the last read decides
CheckDays(b) ==
    LET c == licenseCall[b]
        trialDaysRemaining == getTrialDaysRemaining(b, c.user)
    IN
    /\ c.pc = "days"
    /\ licenseCall' =
          IF trialDaysRemaining = 0
          THEN Returned(b, c, [NoResult EXCEPT !.type = "expired", !.canExport = FALSE,
                                               !.rejected = c.rejected])
          ELSE Returned(b, c, [NoResult EXCEPT !.type = "trial", !.canExport = TRUE,
                                               !.trialDaysRemaining = trialDaysRemaining,
                                               !.rejected = c.rejected])
    /\ UNCHANGED <<activations, storedLicense, signedIn, trials, now, nonLicenseVars>>

\* activateLicense: the key is found in licenses and has not expired
ActivateCall(b, l) ==
    /\ signedIn[b] # NoAccount
    /\ licenseCall[b].pc = "idle"
    /\ licenseCall' =
          IF licenseExpired(l, now)
          THEN Returned(b, [NoCall EXCEPT !.user = signedIn[b], !.license = l],
                        [NoResult EXCEPT !.error = "License has expired"])
          ELSE [licenseCall EXCEPT ![b] =
                   [NoCall EXCEPT !.fn = "activate", !.pc = "count",
                                  !.user = signedIn[b], !.license = l]]
    /\ UNCHANGED <<activations, storedLicense, signedIn, trials, now, nonLicenseVars>>

\* activateLicense: select("id").eq("license_id", license.id), counted
ActivateCount(b) ==
    LET c == licenseCall[b] IN
    /\ c.fn = "activate"
    /\ c.pc = "count"
    /\ licenseCall' = [licenseCall EXCEPT ![b] =
                          [c EXCEPT !.pc = "lookup",
                                    !.count = Cardinality(visibleAt(b) \cap rowsOf(c.license))]]
    /\ UNCHANGED <<activations, storedLicense, signedIn, trials, now, nonLicenseVars>>

\* activateLicense: is this user already activated; if not, the device limit
ActivateLookup(b) ==
    LET c == licenseCall[b]
        existing == hasActivation(visibleAt(b), c.license, c.user)
    IN
    /\ c.fn = "activate"
    /\ c.pc = "lookup"
    /\ licenseCall' =
          IF ~existing /\ c.count >= max_devices(c.license)
          THEN Returned(b, c, [NoResult EXCEPT !.error = "Device limit reached"])
          ELSE [licenseCall EXCEPT ![b] = [c EXCEPT !.pc = "write", !.existing = existing]]
    /\ UNCHANGED <<activations, storedLicense, signedIn, trials, now, nonLicenseVars>>

\* activateLicense: update the activation or insert a new one (an insert the
\* UNIQUE constraint or the policy rejects returns "Failed to activate
\* license"), then storeLicense
ActivateWrite(b) ==
    LET c == licenseCall[b]
        row == activationRow(c.license, c.user, "activateLicense")
    IN
    /\ c.fn = "activate"
    /\ c.pc = "write"
    /\ IF ~c.existing /\ (hasActivation(activations, c.license, c.user) \/ ~mayInsert(b, row))
       THEN /\ licenseCall' = Returned(b, c, [NoResult EXCEPT
                                                 !.error = "Failed to activate license"])
            /\ UNCHANGED <<activations, storedLicense>>
       ELSE /\ activations' = IF c.existing THEN activations ELSE activations \cup {row}
            /\ storedLicense' = [storedLicense EXCEPT ![b] = c.license]
            /\ licenseCall' = Returned(b, c, [NoResult EXCEPT !.success = TRUE])
    /\ UNCHANGED <<signedIn, trials, now, nonLicenseVars>>

NextLicense ==
    \/ \E b \in Browsers, u \in Accounts : SignInAt(b, u)
    \/ \E b \in Browsers : SignOutAt(b)
    \/ Tick
    \/ \E b \in Browsers : CheckCall(b)
    \/ \E b \in Browsers : TrialSelect(b)
    \/ \E b \in Browsers : TrialRpc(b)
    \/ \E b \in Browsers : TrialInsert(b)
    \/ \E b \in Browsers : CheckRestore(b)
    \/ \E b \in Browsers : ValidateCall(b)
    \/ \E b \in Browsers : ValidateLookup(b)
    \/ \E b \in Browsers : ValidateWrite(b)
    \/ \E b \in Browsers : CheckDays(b)
    \/ \E b \in Browsers, l \in Licenses : ActivateCall(b, l)
    \/ \E b \in Browsers : ActivateCount(b)
    \/ \E b \in Browsers : ActivateLookup(b)
    \/ \E b \in Browsers : ActivateWrite(b)

SpecLicense == InitLicense /\ [][NextLicense]_vars

----------------------------------------------------------------------------
(* App.svelte: the session, licenseStatus and the license validation       *)
(* interval.  checkLicenseStatus is awaited by initializeLicense, LoginModal *)
(* onSuccess, LicenseModal onStatusChange and the interval's callback; each *)
(* of them goes on, when it resolves, with the status it got.              *)

\* the type of a LicenseStatus checkLicenseStatus resolves with
StatusTypes == {"trial", "licensed", "expired"}

\* handles window.setInterval can return
IntervalIds == 1 .. 3

nonAppVars == <<designerVars, treeVars, layerVars, heapVars, licenseVars, fontVars>>

\* onMount's auth initialization up to its first suspension: getSession has
\* resolved; with a session initializeLicense is awaited and
\* onAuthStateChange is subscribed only after it
InitApp ==
    /\ variant = "TextOutline"
    /\ user = NoUser
    /\ scene = FALSE
    /\ assets = {}
    /\ text = <<>>
    /\ outlineOffsetPx = 10
    /\ keyringEnabled = TRUE
    /\ group = <<>>
    /\ lastRebuild = NoRebuild
    /\ clipLog = {}
    /\ extrudeLog = {}
    /\ awaiting = {}
    /\ last = NoStep
    /\ exportError = ""
    /\ TreeIdle
    /\ LayersIdle
    /\ HeapIdle
    /\ LicenseIdle
    /\ FontIdle
    /\ \E u \in {NoAccount} \cup Accounts :
          /\ app = [NoApp EXCEPT !.user = u, !.subscribed = (u = NoAccount)]
          /\ appCalls = IF u = NoAccount THEN {}
                        ELSE {[kind |-> "initializeLicense", user |-> u, startup |-> TRUE]}

\* clearInterval(licenseValidationInterval) when it is not null
clearInterval(a) ==
    [a EXCEPT !.scheduled = a.scheduled \ {a.licenseValidationInterval}]

\* the SIGNED_OUT branch of the onAuthStateChange callback
signedOut(a) ==
    [clearInterval(a) EXCEPT !.user = NoAccount, !.licenseStatus = "null",
                             !.licenseValidationInterval = 0]

\* onAuthStateChange SIGNED_IN: the user is set and initializeLicense called
SignedInEvent(u) ==
    /\ app.subscribed
    /\ app.user \in {NoAccount, u}
    /\ app' = [app EXCEPT !.user = u]
    /\ appCalls' = appCalls \cup
                      {[kind |-> "initializeLicense", user |-> u, startup |-> FALSE]}
    /\ UNCHANGED nonAppVars

\* initializeLicense after `await checkLicenseStatus(user)`: the status is
\* stored, the old interval cleared and a new one scheduled
InitializeLicenseResume(c, status) ==
    LET cleared == clearInterval(app)
        id == CHOOSE i \in IntervalIds \ cleared.scheduled :
                 \A j \in IntervalIds \ cleared.scheduled : i <= j
    IN
    /\ c \in appCalls
    /\ c.kind = "initializeLicense"
    /\ app' = [cleared EXCEPT !.licenseStatus = status,
                              !.licenseValidationInterval = id,
                              !.scheduled = cleared.scheduled \cup {id},
                              !.subscribed = app.subscribed \/ c.startup]
    /\ appCalls' = appCalls \ {c}
    /\ UNCHANGED nonAppVars

\* LoginModal onSuccess: getUser, user = newUser, then checkLicenseStatus
LoginSuccess(u) ==
    /\ app.user \in {NoAccount, u}
    /\ app' = [app EXCEPT !.user = u]
    /\ appCalls' = appCalls \cup {[kind |-> "onSuccess", user |-> u, startup |-> FALSE]}
    /\ UNCHANGED nonAppVars

\* LicenseModal onStatusChange: `if (user)` checkLicenseStatus(user)
StatusChange ==
    /\ app.user # NoAccount
    /\ appCalls' = appCalls \cup
                      {[kind |-> "onStatusChange", user |-> app.user, startup |-> FALSE]}
    /\ UNCHANGED <<app, nonAppVars>>

\* the interval's callback: `if (!user) return`, validateDeviceActivation,
\* then checkLicenseStatus
IntervalFires(id) ==
    /\ id \in app.scheduled
    /\ appCalls' = IF app.user = NoAccount THEN appCalls
                   ELSE appCalls \cup
                           {[kind |-> "interval", user |-> app.user, startup |-> FALSE]}
    /\ UNCHANGED <<app, nonAppVars>>

\* `licenseStatus = await checkLicenseStatus(...)` of onSuccess,
\* onStatusChange and the interval's callback, resumed
CheckResume(c, status) ==
    /\ c \in appCalls
    /\ c.kind # "initializeLicense"
    /\ app' = [app EXCEPT !.licenseStatus = status]
    /\ appCalls' = appCalls \ {c}
    /\ UNCHANGED nonAppVars

\* a SIGNED_OUT event that handleSignOut did not cause (another tab, an
\* expired session)
SignedOutEvent ==
    /\ app.subscribed
    /\ app.user # NoAccount
    /\ app' = signedOut(app)
    /\ UNCHANGED <<appCalls, nonAppVars>>

\* handleSignOut: signOut() raises SIGNED_OUT for the subscribed callback,
\* then user, session and licenseStatus are set to null
handleSignOut ==
    /\ app.user # NoAccount
    /\ app' = [(IF app.subscribed THEN signedOut(app) ELSE app)
                  EXCEPT !.user = NoAccount, !.licenseStatus = "null"]
    /\ UNCHANGED <<appCalls, nonAppVars>>

NextApp ==
    \/ \E u \in Accounts : SignedInEvent(u)
    \/ \E c \in appCalls, status \in StatusTypes : InitializeLicenseResume(c, status)
    \/ \E u \in Accounts : LoginSuccess(u)
    \/ StatusChange
    \/ \E id \in IntervalIds : IntervalFires(id)
    \/ \E c \in appCalls, status \in StatusTypes : CheckResume(c, status)
    \/ SignedOutEvent
    \/ handleSignOut

SpecApp == InitApp /\ [][NextApp]_vars

----------------------------------------------------------------------------
(* The font a designer builds with: fontKey and its trial effect            *)
(* (TextOutline, Initial), initialFontKey (Initial), charFontKey (Flower).  *)
(* An action is the handler together with the effects it triggers, run     *)
(* until they settle.                                                      *)

\* FONT_OPTIONS by key: its first entry and two of the others
FONT_OPTIONS == <<"Titan One_Regular", "Beautiful Harmony_Regular", "Milkyway_Regular">>
FontKeys == {FONT_OPTIONS[i] : i \in 1 .. Len(FONT_OPTIONS)}
DEFAULT_INITIAL_FONT_KEY == "Milkyway_Regular"
FontVariants == {"TextOutline", "Initial", "Flower"}

\* getFont: the font of the key, FONT_OPTIONS[0] for a key that is none
getFont(key) == IF key \in FontKeys THEN key ELSE FONT_OPTIONS[1]

nonFontVars == <<user, assets, text, outlineOffsetPx, keyringEnabled, group,
                 lastRebuild, clipLog, extrudeLog, awaiting, last, exportError,
                 treeVars, layerVars, heapVars, licenseVars, appVars>>

\* the fonts rebuildMeshes reads: `font` for the text, getFont(initialFontKey)
\* for Initial's large letter, getFont(charFontKey) for Flower's characters
rebuildFonts(v, st) ==
    IF v = "TextOutline" THEN {<<"text", st.font>>}
    ELSE IF v = "Initial" THEN {<<"text", st.font>>, <<"initial", getFont(st.initialFontKey)>>}
    ELSE {<<"char", getFont(st.charFontKey)>>}

\* the "font change" $effect of TextOutline and Initial, run until it
\* settles: a trial user's fontKey is set to FONT_OPTIONS[0]; a fontKey other
\* than lastFont loads that font's settings (in Initial they carry
\* initialFontKey) and, with a scene, the font
fontEffect(v, u, sc, st, settingsInitialFontKey) ==
    LET gated == IF u # NoUser /\ st.licenseStatus = "trial" /\ st.fontKey # FONT_OPTIONS[1]
                 THEN [st EXCEPT !.fontKey = FONT_OPTIONS[1]]
                 ELSE st
    IN  IF v \in {"TextOutline", "Initial"} /\ gated.fontKey # gated.lastFont
        THEN [gated EXCEPT !.lastFont = gated.fontKey,
                           !.initialFontKey = IF v = "Initial" THEN settingsInitialFontKey
                                              ELSE @,
                           !.font = IF sc THEN getFont(gated.fontKey) ELSE @]
        ELSE IF v = "Flower" THEN st ELSE gated

\* the font dropdowns a designer has
fontRoles(v) ==
    IF v = "TextOutline" THEN {"fontKey"}
    ELSE IF v = "Initial" THEN {"fontKey", "initialFontKey"}
    ELSE {"charFontKey"}

\* did the settled effect call rebuildMeshes
effectRebuilt(v, sc, before, after) ==
    sc /\ v \in {"TextOutline", "Initial"} /\ after.lastFont # before.lastFont

\* component creation: the keys restored from storage or their defaults;
\* Initial starts with lastFont = restoredFont
InitFonts ==
    /\ variant \in FontVariants
    /\ user \in {NoUser} \cup Users
    /\ scene = FALSE
    /\ assets = {}
    /\ text = <<>>
    /\ outlineOffsetPx = 10
    /\ keyringEnabled = TRUE
    /\ group = <<>>
    /\ lastRebuild = NoRebuild
    /\ clipLog = {}
    /\ extrudeLog = {}
    /\ awaiting = {}
    /\ last = NoStep
    /\ exportError = ""
    /\ TreeIdle
    /\ LayersIdle
    /\ HeapIdle
    /\ LicenseIdle
    /\ AppIdle
    /\ \E restoredFont \in FontKeys, status \in {"null"} \cup StatusTypes,
          restoredInitialFontKey \in {DEFAULT_INITIAL_FONT_KEY, FONT_OPTIONS[1]} :
          fontState =
             [NoFonts EXCEPT
                 !.fontKey = IF variant = "Flower" THEN "" ELSE restoredFont,
                 !.lastFont = IF variant = "Initial" THEN restoredFont ELSE "",
                 !.initialFontKey = IF variant = "Initial" THEN restoredInitialFontKey ELSE "",
                 !.charFontKey = IF variant = "Flower" THEN restoredFont ELSE "",
                 !.licenseStatus = status]
    /\ builtFonts = {}

\* onMount (`font = getFont(fontKey)`, the scene), then the effects and the
\* first rebuild
FontMount(k) ==
    LET mounted == [fontState EXCEPT !.font = IF variant = "Flower" THEN @
                                              ELSE getFont(fontState.fontKey)]
        settled == fontEffect(variant, user, TRUE, mounted, k)
    IN
    /\ ~scene
    /\ scene' = TRUE
    /\ fontState' = settled
    /\ builtFonts' = rebuildFonts(variant, settled)
    /\ UNCHANGED <<variant, nonFontVars>>

\* a click in a font dropdown: refused for a trial user unless the font is
\* the first; else the key is set, the effects run and the composite is
\* rebuilt
PickFont(role, key, k) ==
    LET picked == [fontState EXCEPT ![role] = key]
        settled == fontEffect(variant, user, scene, picked, k)
    IN
    /\ scene
    /\ role \in fontRoles(variant)
    /\ ~(user # NoUser /\ fontState.licenseStatus = "trial" /\ key # FONT_OPTIONS[1])
    /\ fontState' = settled
    /\ builtFonts' = rebuildFonts(variant, settled)
    /\ UNCHANGED <<variant, scene, nonFontVars>>

\* the licenseStatus prop changes; the font effect reads it and runs again
LicenseStatusProp(status, k) ==
    LET changed == [fontState EXCEPT !.licenseStatus = status]
        settled == fontEffect(variant, user, scene, changed, k)
    IN
    /\ status # fontState.licenseStatus
    /\ fontState' = settled
    /\ builtFonts' = IF effectRebuilt(variant, scene, changed, settled)
                     THEN rebuildFonts(variant, settled)
                     ELSE builtFonts
    /\ UNCHANGED <<variant, scene, nonFontVars>>

\* exportSTL's rebuildMeshes
FontExportRebuild ==
    /\ scene
    /\ user # NoUser
    /\ builtFonts' = rebuildFonts(variant, fontState)
    /\ UNCHANGED <<variant, scene, fontState, nonFontVars>>

NextFonts ==
    \/ \E k \in FontKeys : FontMount(k)
    \/ \E role \in {"fontKey", "initialFontKey", "charFontKey"}, key \in FontKeys,
          k \in FontKeys : PickFont(role, key, k)
    \/ \E status \in {"null"} \cup StatusTypes, k \in FontKeys : LicenseStatusProp(status, k)
    \/ FontExportRebuild

SpecFonts == InitFonts /\ [][NextFonts]_vars

----------------------------------------------------------------------------
(* Claims about exportSTL (checked under Spec) *)

\* C1: within one exportSTL call, geometry is serialized and a file emitted
\* only after that call's checkLicenseStatus resolved with canExport = true;
\* a call that finds no user requests the login, a call whose check resolves
\* with canExport = false opens the license modal, and neither serializes
\* nor emits anything.
C1_ExportOnlyAfterCheck ==
    /\ (last.serialized \/ last.downloaded) => (last.checked /\ last.canExport)
    /\ last.step = "noUser" =>
          (~last.serialized /\ ~last.downloaded /\ last.loginRequested /\ ~last.checked)
    /\ (last.checked /\ ~last.canExport) =>
          (~last.serialized /\ ~last.downloaded /\ last.modalOpened)

C1_Witness_FileAfterCheck ==
    last.step = "done" /\ last.checked /\ last.canExport /\ last.downloaded

\* C2: every exportSTL call that passes the license check runs rebuildMeshes
\* after the check resolved and before it serializes.
C2_RebuildBeforeSerialize == last.serialized => last.rebuilt

\* C3: exportSTL emits no file (downloadBlob is not called) when the
\* serialized buffer is smaller than 84 bytes.
C3_NoFileBelowMinimum ==
    (last.serialized /\ last.bufLen < MIN_STL_BYTES) => ~last.downloaded

\* C4: an export that passed the license check and produced no file sets an
\* error state and triggers no thank-you dialog.
C4_FailureSurfaced ==
    (last.step = "done" /\ ~last.downloaded) => (last.error /\ ~last.thankYou)

----------------------------------------------------------------------------
(* Claims about rebuildMeshes (checked under Spec) *)

hasBaseLayer == \E k \in 1..Len(group) : group[k].kind = "base"

C6_NoEmptyRegionList ==
    variant \in {"TextOutline", "Initial"} =>
        \A e \in extrudeLog : e.layer \in {"base", "text"} => e.n > 0

\* C9: every path added to a Clipper union or difference has had its
\* orientation forced since it was produced.
C9_OrientationForced ==
    \A e \in clipLog : e.op \in {"union", "difference"} => e.forced

\* C10: no glyph, circle, rectangle or re-collected tree contour of fewer
\* than 3 points is handed to a boolean or offset operation.
C10_NoDegeneratePath ==
    \A e \in clipLog : e.src \in {"glyph", "circle", "rect", "tree"} => e.n >= 3

C10_Witness_DegenerateHoleDropped ==
    /\ lastRebuild.ran
    /\ variant \in {"TextOutline", "Initial"}
    /\ text = <<"e">>
    /\ \E e \in clipLog : e.src = "glyph" /\ e.op = "union"

----------------------------------------------------------------------------
(* Claims about the Shape Reconstructor (checked under SpecTree) *)

\* the nodes a region is due for: non-hole nodes of at least 3 points
regionNodes == { i \in 1..Len(nodes) : ~IsHole(nodes, i) /\ Len(Contour(nodes, i)) >= 3 }

\* the direct hole children of node i that have at least 3 points
holeChildren(i) ==
    { j \in 1..Len(nodes) : nodes[j].parent = i /\ Len(Contour(nodes, j)) >= 3 }

\* C7: the reconstructor (polyTreeToThreeShapes of TextOutline and Initial,
\* the root walk of BasicName) returns exactly one region per non-hole node
\* of at least 3 points, with exactly its direct hole children as holes, and
\* no null entry.
C7_OneRegionPerOuterNode ==
    treePc \in {"TextOutline", "Initial", "BasicName"} =>
        /\ \A k \in 1..Len(shapesOut) : shapesOut[k] # NullShape
        /\ \A i \in regionNodes :
              Cardinality({k \in 1..Len(shapesOut) : shapesOut[k].node = i}) = 1
        /\ \A k \in 1..Len(shapesOut) :
              shapesOut[k] # NullShape =>
                 /\ shapesOut[k].node \in regionNodes
                 /\ Len(shapesOut[k].holes) = Cardinality(holeChildren(shapesOut[k].node))

\* C8: every region the reconstructor returns has its outer boundary wound
\* counter-clockwise and each hole wound clockwise.
C8_RegionsOriented ==
    treePc \in TreeVariants =>
        \A k \in 1..Len(shapesOut) :
            shapesOut[k] # NullShape =>
               /\ ~isClockWise(shapesOut[k].outer)
               /\ \A h \in 1..Len(shapesOut[k].holes) : isClockWise(shapesOut[k].holes[h])

----------------------------------------------------------------------------
(* Claims about degenerate paths and layer placement (checked under Spec) *)

\* the glyphs of the text whose outer contour keeps at least 3 points
usableGlyphs(t) ==
    Len(SelectSeq(generateShapes(textOrSpace(t)),
                  LAMBDA sh : Len(toPath(sh.outer)) >= 3))

solid == { k \in 1..Len(stack) : stack[k].regions > 0 }
beneath(u) == { k \in solid : stack[k].kind = stack[u].on }

\* C12: every upper layer is embedded in the layer beneath it: its bottom z
\* is strictly below the top z of the lower layer and not below the lower
\* layer's bottom z.
C12_UpperLayerEmbedded ==
    \A u \in solid : \A l \in beneath(u) :
        /\ stack[u].z < stack[l].z + stack[l].depth
        /\ stack[u].z >= stack[l].z

----------------------------------------------------------------------------
(* Claims about the keyring radii and the z-extent (checked under SpecLayers) *)

hasRing == variant \in {"TextOutline", "Initial"} /\ keyringEnabled

\* C13: for all keyring outer-size and hole-size inputs, in TextOutline and
\* in Initial, the hole radius is at most the outer radius minus 0.1, and the
\* annulus between them has positive area.
C13_HoleBelowOuter ==
    hasRing =>
        /\ ringRadii.inner <= ringRadii.outer - 100
        /\ ringRadii.inner >= 0
        /\ ringRadii.inner < ringRadii.outer

C13_Witness_HoleAboveOuterClamped ==
    /\ hasRing
    /\ keyringSize.hole > keyringSize.outer
    /\ ringRadii.inner <= ringRadii.outer - 100

\* C14: whenever the requested hole size is larger than the requested outer
\* size, the hole radius is exactly the outer radius minus 0.1, in TextOutline
\* and in Initial.
C14_HoleClampedToMargin ==
    (hasRing /\ keyringSize.hole > keyringSize.outer) =>
        ringRadii.inner = ringRadii.outer - 100

\* the z-extent of the meshes that have geometry
zBottom == SetMin({stack[k].z : k \in solid})
zTop == SetMax({stack[k].z + stack[k].depth : k \in solid})

\* C15: the TextOutline composite starts at z = 0 and its total z-extent is
\* base depth + text depth - TEXT_BASE_EMBED, for all depth values.
C15_OutlineExtent ==
    variant = "TextOutline" =>
        /\ solid # {}
        /\ zBottom = 0
        /\ zTop - zBottom = depths.baseDepth + depths.textDepth - TEXT_BASE_EMBED

----------------------------------------------------------------------------
(* Claims about the export pipeline (checked under Spec) *)

\* C16: in every variant an export that serializes has baked the placement of
\* every Solid of the composite into its geometry, merged them into one
\* buffer, welded the vertices with tolerance 1e-3 and only then serialized.
C16_BakeMergeWeldSerialize ==
    last.serialized =>
        /\ last.pipeline = <<"bake", "merge", "weld", "serialize">>
        /\ last.geometries = last.solids

\* C17: an export never reads a composite that a rebuild has cleared and not
\* fully repopulated, and no rebuild comes between the export's own rebuild
\* and its serialization: in every step in which an export serializes, the
\* composite it hands over is the complete build of the parameter values of
\* that moment, and it is the composite the step leaves behind.
C17_ExportReadsCompleteComposite ==
    [][ (last' # last /\ last'.serialized) =>
            /\ ~lastRebuild'.threw
            /\ group' = rebuildMeshes(variant, scene, assets, text, outlineOffsetPx,
                                      keyringEnabled).layers
            /\ last'.solids = Len(group') ]_vars

\* an export has serialized after a parameter-change rebuild that ran while
\* an export was suspended at its license check
C17_Witness_RebuildDuringSuspension ==
    /\ last.step = "done" /\ last.serialized
    /\ lastRebuild.ran /\ lastRebuild.suspended
    /\ ~last.rebuilt

----------------------------------------------------------------------------
(* Claims about object ownership (checked under SpecHeap) *)

\* C18: on every rebuild all Solids of the previous composite are disposed
\* and every Solid of the new one is newly created: no geometry or material
\* of the current composite belonged to an earlier composite, none of them
\* is disposed, and every object of an earlier composite is disposed.
C18_NoCrossRebuildAliasing ==
    /\ objectsOf(meshes) \cap earlier = {}
    /\ objectsOf(meshes) \cap disposed = {}
    /\ earlier \subseteq disposed

C18_Witness_SecondComposite ==
    /\ earlier # {}
    /\ meshes # <<>>
    /\ allocated > Cardinality(objectsOf(meshes)) + MATERIALS_PER_REBUILD

----------------------------------------------------------------------------
(* Claims about licensing (checked under SpecLicense) *)

\* C20: however activateLicense, validateDeviceActivation and
\* checkLicenseStatus calls of any accounts interleave, a license never has
\* more device_activations rows than its max_devices.
C20_DeviceLimit ==
    \A l \in Licenses : Cardinality(rowsOf(l)) <= max_devices(l)

trialPcs == {"trialSelect", "trialRpc", "trialInsert"}

\* C21: one trial per user: a user never has two user_trials rows, an
\* initializeTrial that returns while the user's row exists returns true,
\* and a trial row is never replaced, extended or followed by a second one.
C21_OneTrialPerUser ==
    [][ /\ \A u \in Accounts : Cardinality(trialsOf(u)') <= 1
        /\ \A b \in Browsers :
              (/\ licenseCall[b].pc \in trialPcs
               /\ licenseCall'[b].pc \notin trialPcs
               /\ trialsOf(licenseCall[b].user)' # {})
              => licenseCall'[b].trialInitialized
        /\ trials \subseteq trials'
        /\ \A r \in trials' \ trials : trialsOf(r.user_id) = {} ]_vars

\* C22: checkLicenseStatus returns 'licensed' only when, in that call,
\* validateDeviceActivation returned true and the license has not expired;
\* when validation of the stored license fails the stored license is cleared
\* and the trial alone decides the returned status.
C22_LicensedOnlyWhenValidated ==
    [][ \A b \in Browsers :
          LET c == licenseCall[b]
              d == licenseCall'[b]
          IN
          /\ (c.pc # "idle" /\ d.pc = "idle" /\ d.result.type = "licensed")
                => /\ c.fn = "check"
                   /\ c.pc = "write"
                   /\ d.result.validated
                   /\ ~licenseExpired(c.license, now')
          /\ (c.fn = "check" /\ c.pc = "lookup" /\ d # c /\ d.pc # "write")
                => /\ storedLicense'[b] = NoLicense
                   /\ d.pc = "days"
                   /\ d.rejected
          /\ (c.pc = "days" /\ c.rejected /\ d # c)
                => /\ d.pc = "idle"
                   /\ d.result.rejected
                   /\ d.result.type = IF getTrialDaysRemaining(b, c.user) > 0
                                      THEN "trial" ELSE "expired" ]_vars

\* one browser's checkLicenseStatus has returned a trial status after its
\* stored license failed validation, and its stored license is gone, while
\* another browser's has returned 'licensed'
C22_Witness_RejectedThenTrial ==
    \E b1, b2 \in Browsers :
        /\ licenseCall[b1].pc = "idle"
        /\ licenseCall[b1].result.rejected
        /\ licenseCall[b1].result.type = "trial"
        /\ storedLicense[b1] = NoLicense
        /\ licenseCall[b2].result.type = "licensed"

\* C23: every LicenseStatus has canExport exactly for 'trial' and
\* 'licensed', a 'trial' status has trialDaysRemaining > 0, and a null user
\* gets 'expired'.
C23_StatusConsistent ==
    \A b \in Browsers :
        LET r == licenseCall[b].result IN
        r.type # "none" =>
            /\ r.canExport <=> r.type \in {"trial", "licensed"}
            /\ ~r.canExport <=> r.type = "expired"
            /\ r.type = "trial" => r.trialDaysRemaining > 0
            /\ licenseCall[b].user = NoAccount => r.type = "expired"

\* one browser holds a 'trial' status with days left while another holds
\* the 'expired' status of a trial that ran out
C23_Witness_TrialAndExpired ==
    \E b1, b2 \in Browsers :
        /\ licenseCall[b1].result.type = "trial"
        /\ licenseCall[b1].result.trialDaysRemaining > 0
        /\ licenseCall[b2].result.type = "expired"
        /\ licenseCall[b2].user # NoAccount
        /\ trialsOf(licenseCall[b2].user) # {}

\* C24: license state is isolated between the users of a browser: every
\* activation row was created by its user's activateLicense, and a user is
\* 'licensed' only with such a row.
C24_LicenseIsolated ==
    /\ \A r \in activations : r.by = "activateLicense"
    /\ \A b \in Browsers :
          licenseCall[b].result.type = "licensed" =>
              activationRow(licenseCall[b].license, licenseCall[b].user,
                            "activateLicense") \in activations

----------------------------------------------------------------------------
(* Claims about exports and the session (checked under Spec) *)

\* BasicName's exportLoading between two handlers: exportSTL sets it after
\* the license check and clears it in `finally` before it returns or
\* suspends again
exportLoading == FALSE

\* C26: exportSTL never emits a file at a moment when no user is signed in.
C26_NoFileWhileSignedOut ==
    [][ (last' # last /\ last'.downloaded) => user' # NoUser ]_vars

\* C27: at most one exportSTL is in progress, the license-check wait
\* included, and BasicName's exportLoading is true all through it.
C27_OneExportInProgress ==
    /\ Cardinality(awaiting) <= 1
    /\ (variant = "BasicName" /\ awaiting # {}) => exportLoading

----------------------------------------------------------------------------
(* Claims about App.svelte's license state (checked under SpecApp) *)

\* C25: while no user is signed in licenseStatus is null and no validation
\* interval is scheduled, and never is more than one interval scheduled.
C25_SignedOutMeansNoLicenseState ==
    /\ app.user = NoAccount => app.licenseStatus = "null" /\ app.scheduled = {}
    /\ Cardinality(app.scheduled) <= 1

----------------------------------------------------------------------------
(* Claims about the trial font (checked under SpecFonts) *)

\* C28: while a signed-in user's licenseStatus is 'trial', the composite of a
\* mounted designer is built with FONT_OPTIONS[0] only: text font, initial
\* font and character font.
C28_TrialBuildsWithFirstFont ==
    (scene /\ user # NoUser /\ fontState.licenseStatus = "trial")
        => \A f \in builtFonts : f[2] = FONT_OPTIONS[1]

====
